---- MODULE Spec2Model ----
(***************************************************************************)
(* A model of the nara runtime (miquels/nara): the executor's driver loop  *)
(* and run queue, the JoinHandle completion cell, and the mpsc channels.    *)
(*                                                                         *)
(* Each subsystem has its own specification (SpecExec, SpecJoin,           *)
(* SpecChan); the variables of the other subsystems stay at their initial  *)
(* value.                                                                  *)
(***************************************************************************)
EXTENDS Integers, Sequences, FiniteSets, TLC

\* ------------------------------------------------------------------ bounds
\* Tasks created in a run of the scheduler specification (ids 1..ExecTasks).
ExecTasks == 3
\* Tasks created in a run of the JoinHandle specification (ids 1..JoinTasks).
JoinTasks == 2
\* The closures handed to spawn_blocking.
Closures == {1}
\* Ids in the wake pipe at a time in the scheduler specification.
MaxPipe == 1

\* Sender handles of a channel (ids 1..MaxSenders), sends started on it by
\* all senders, and the largest capacity of a bounded channel.
MaxSenders == 2
MaxSends == 3
MaxCap == 2
\* Sender handles of a cross-thread channel, whose polls interleave access
\* by access.
SyncSenders == 1

\* Tasks created in a run of the timer specification (ids 1..TimerTasks),
\* Sleeps created in it, the longest duration slept and the latest instant
\* the clock reaches other than by waiting for a deadline.
TimerTasks == 2
MaxSleeps == 2
MaxDur == 1
MaxClock == 1

\* test_channel of examples/naratest.rs: the capacity of its channel, the
\* values each sender sends, its tasks (the root, ping1, ping2, pong) and,
\* in units of 50 ms, the sleep between two sends, the initial sleep of
\* ping2 and the initial sleep of pong.
PingCap == 4
PingN == 10
PingTasks == 4
PingSleep == 2
Ping2Delay == 1
PongDelay == 10
\* The latest instant the clock of a run of test_channel reaches other than
\* by waiting for a deadline.
PingHorizon == 8

\* Tasks created in a run of the wake-up specification (ids 1..WakeTasks).
WakeTasks == 1

\* Closures handed to ThreadPool::spawn in a run of the pool specification,
\* and the cap on the pool's thread list (16 in threadpool.rs, scaled down).
MaxJobs == 3
MAX_THREADS == 2
Jobs == 1..MaxJobs
\* The runtime: Runtimes created and EnterGuards created at most.
MaxRts == 2
MaxGuards == 3
RtIds == 1..MaxRts
GuardIds == 1..MaxGuards
\* The reactor: the file descriptors the program registers (1..MaxFd), the
\* Registrations alive at a time and the waiters a slot holds at most.
MaxFd == 1
MaxRegs == 2
MaxWaiters == 2
Fds == 1..MaxFd
\* The read end of the executor's wake pipe and the reactor's own wake_rx.
PipeFd == MaxFd + 1
WakeRx == MaxFd + 2
\* poll(2) event bits (libc) and the waker that stands for ExecutorWaker.
POLLIN == 1
POLLOUT == 4
POLLERR == 8
POLLHUP == 16
POLLNVAL == 32
INTERESTING == 56
ExecutorWaker == 0
\* The call of spawn that launches a worker names it: worker k is the one
\* launched by the k-th call.
WorkerIds == 1..MaxJobs

Max(a, b) == IF a > b THEN a ELSE b
MaxTasks == Max(Max(ExecTasks, JoinTasks), Max(Max(TimerTasks, PingTasks), WakeTasks))
TaskIds == 1..MaxTasks
\* The values a future or a closure returns (0 stands for None).
Values == {1, 2}
\* The JoinHandle of task t is keyed t, the one of closure k is keyed MaxTasks+k.
BHandle(k) == MaxTasks + k
Handles == TaskIds \cup {BHandle(k) : k \in Closures}
SenderIds == 1..MaxSenders
\* The n-th value sender s sends (never 0), and the sender of a value.
Val(s, n) == s * (MaxSends + 1) + n
SenderOf(v) == v \div (MaxSends + 1)

VARIABLES
    \* InnerExecutor (executor.rs:21-44)
    runq,           \* VecDeque<Task>: front is index 1, back is index Len
    tasks,          \* HashMap<u64, Task>: the parked table (its key set)
    current_id,     \* Cell<u64>
    current_woken,  \* Cell<bool>
    next_id,        \* Cell<u64>
    \* Executor::block_on's locals and position
    pc,             \* "idle" | "pop" | "poll" | "react" | "fds" | "tick" | "returned"
    task,           \* the Task popped from the run queue (0: none)
    main_task_id,   \* id returned by spawn_main (0 before the first block_on)
    output,         \* what block_on returned (0: nothing yet)
    \* JoinHandle / JoinInner (task.rs:86-94), per handle
    jresult,        \* JoinInner.result: 0 is None, v is Some(v)
    jwaker,         \* JoinInner.waker: 0 is None, t is the waker of task t
    handles,        \* the keys of the JoinHandles created so far
    bstate,         \* closure k: "none" | "queued" | "ran"
    pipe,           \* task ids written to the wake pipe and not yet read
    \* history (observation only)
    done,           \* ids of tasks whose future returned Ready (dropped)
    notes,          \* per id: was queue(id) called since it was last parked (-1: n/a)
    enq,            \* per id: pushes on the run queue by queue(id) since last park
    pops,           \* per id: pops by the driver since last park
    selfNotified,   \* queue(task.id) was called during the poll in progress
    jfills,         \* per handle: number of None -> Some transitions of the cell
    jlast,          \* per handle: waker of the latest poll that returned Pending
    ev,             \* the step just taken
    ntasks,         \* how many tasks this run creates at most
    \* mpsc_unsync::Channel (mpsc_unsync.rs:10-17)
    ch_queue,       \* Channel.queue: front is index 1
    capacity,       \* Channel.capacity
    tx_wakers,      \* Channel.tx_wakers: the sender id of each (id, waker) entry
    rx_waker,       \* Channel.rx_waker is Some
    recv_gone,      \* Channel.recv_gone
    last_id,        \* Channel.last_id
    senders,        \* ids of the Sender handles alive
    sending,        \* per sender: the value of its send in flight (0: none)
    nsent,          \* per sender: sends started
    \* history of the channel (observation only)
    woken,          \* senders whose waker was invoked since their last poll
    rx_woken,       \* the receiver's waker was invoked since its last poll
    rx_parked,      \* the latest poll of recv returned Pending
    sent,           \* the values whose send resolved Ok, in that order
    rcvd,           \* the values recv returned, in that order
    cev,            \* the channel step just taken
    \* the cross-thread channel (mpsc.rs), over std::sync::mpsc
    kind,           \* "unsync": mpsc_unsync.rs, "sync": mpsc.rs
    buffer,         \* Receiver.buffer: v is Ok(v), 0 Err(Empty), -1 Err(Disconnected)
    tx_waker,       \* the shared tx_waker slot: 0 is None, s the waker of sender s
    stx,            \* per sender: position in the poll of send or in drop
    srx,            \* the receiver's position in the poll of recv or in drop
    \* InnerTimer (time.rs:14-17) and the clock
    clock,          \* Instant::now()
    timers,         \* InnerTimer.timers: the entries [deadline, id, waker]
    timer_next_id,  \* InnerTimer.next_id
    slp,            \* per task: the key of the Sleep it holds (NoSleep: none)
    \* history of the timer (observation only)
    spolls,         \* per task: polls of the Sleep it holds (0, 1, 2 or more)
    fired,          \* the ids of the Sleeps that resolved, in that order
    \* the futures of test_channel (naratest.rs:11-44)
    tpc,            \* per task: the await point or statement it is at
    iter,           \* per task: sends done (ping), handle awaited (root)
    \* ThreadPool (threadpool.rs:13-17) and its workers
    pool_threads,   \* ThreadPool.threads: the workers in the list
    pool_queue,     \* the closures sent on tx and not yet received from rx
    workers,        \* per worker: position, the closure received, its value
    submitted,      \* calls of ThreadPool::spawn so far; closure k is the k-th
    cell,           \* per closure: the result in its JoinHandle (0: None)
    \* history of the pool (observation only)
    invoked,        \* per closure: the workers that invoked it, in order
    fret,           \* per closure: the value its latest invocation returned
    \* InnerExecutor.wake_pipe (executor.rs:23), the Registration of the pipe
    wake_waiter,    \* its slot holds a waiter: the ExecutorWaker, for Read
    \* the thread-local RUNTIME (runtime.rs:25-27), the Runtimes and EnterGuards
    RUNTIME,        \* the Weak in the thread-local: 0 is Weak::new(), r is runtime r
    rt_made,        \* Runtime::new calls that returned Ok; runtime r is the r-th
    rt_live,        \* the Runtimes not yet dropped
    guards,         \* per EnterGuard: NoGuard, or the runtime it entered
    nguards,        \* EnterGuards created so far
    rt_ev,          \* the runtime step just taken
    \* InnerReactor (reactor.rs:24-29) and the Registrations
    pollfds,        \* InnerReactor.pollfds: [fd, events] per slot, slot 0 at index 1
    fd_waiters,     \* InnerReactor.fd_waiters: [refcount, waiters] per slot
    regs,           \* per fd: the Registrations alive that hold it
    rc_ev,          \* the reactor step just taken
    \* InnerReactor::react's timeout (reactor.rs:178-179)
    tmo,            \* the Option<Duration> react got, and what it handed to poll
    \* the Registration objects (observation only)
    reg_fd,         \* per Registration: the fd it holds (0: not alive)
    via             \* per slot, per waiter: the Registration wake_when was called on

execVars == <<runq, tasks, current_id, current_woken, next_id, pc, task,
              main_task_id, output>>
joinVars == <<jresult, jwaker, handles, bstate, pipe>>
histVars == <<done, notes, enq, pops, selfNotified, jfills, jlast, ev, ntasks>>
chanVars == <<ch_queue, capacity, tx_wakers, rx_waker, recv_gone, last_id,
              senders, sending, nsent, woken, rx_woken, rx_parked, sent, rcvd, cev,
              kind, buffer, tx_waker, stx, srx>>
syncVars == <<kind, buffer, tx_waker, stx, srx>>
timeVars == <<clock, timers, timer_next_id, slp, spolls, fired>>
progVars == <<tpc, iter>>
poolVars == <<pool_threads, pool_queue, workers, submitted, cell, invoked, fret>>
wakeVars == <<wake_waiter>>
rtVars == <<RUNTIME, rt_made, rt_live, guards, nguards, rt_ev>>
reactVars == <<pollfds, fd_waiters, regs, rc_ev>>
tmoVars == <<tmo>>
ownVars == <<reg_fd, via>>
extVars == <<rtVars, reactVars, tmoVars, ownVars>>
auxVars == <<timeVars, progVars, poolVars, wakeVars, extVars>>
vars == <<execVars, joinVars, histVars, chanVars, auxVars>>

\* op: the step; id: its task or handle; v: the value it returned or stored;
\* old: for a JoinHandle poll, the waker the handle held before.
Ev(op, id, v, old) == [op |-> op, id |-> id, v |-> v, old |-> old]
NoEv == Ev("-", 0, 0, 0)

\* ------------------------------------------------------------------ helpers
Count(s, x) == Cardinality({i \in 1..Len(s) : s[i] = x})
Range(s) == {s[i] : i \in 1..Len(s)}
Front(s) == SubSeq(s, 1, Len(s) - 1)
Last(s) == s[Len(s)]
\* The history counters count 0, 1, "2 or more".
Inc(n) == IF n < 2 THEN n + 1 ELSE n

\* Stands for usize::MAX, the capacity of an unbounded channel; it is only
\* compared for equality.
usize_MAX == 0 - 1

\* The channel step just taken: op, the sender id (0: the receiver), the
\* result of the poll and the value concerned (0: none).
CEv(op, id, res, v) == [op |-> op, id |-> id, res |-> res, v |-> v]
NoCEv == CEv("-", 0, "-", 0)

\* A position in a poll: pc names the next access to shared state, set is
\* the local set_waker, res the result the poll is about to return.
At(at, set, res) == [pc |-> at, set |-> set, res |-> res]
Idle == At("idle", FALSE, "-")

\* The channel in the specifications of the other subsystems: none.
ChanIdle ==
    /\ ch_queue = <<>>
    /\ capacity = 0
    /\ tx_wakers = <<>>
    /\ rx_waker = FALSE
    /\ recv_gone = FALSE
    /\ last_id = 0
    /\ senders = {}
    /\ sending = [s \in SenderIds |-> 0]
    /\ nsent = [s \in SenderIds |-> 0 - 1]
    /\ woken = {}
    /\ rx_woken = FALSE
    /\ rx_parked = FALSE
    /\ sent = <<>>
    /\ rcvd = <<>>
    /\ cev = NoCEv
    /\ kind = "unsync"
    /\ buffer = <<>>
    /\ tx_waker = 0
    /\ stx = [s \in SenderIds |-> Idle]
    /\ srx = Idle

\* The key of a Sleep, and the task that holds none.
Key(deadline, id) == [deadline |-> deadline, id |-> id]
NoSleep == Key(0, 0)

\* The timer in the specifications of the other subsystems: never used.
TimeIdle ==
    /\ clock = 0
    /\ timers = {}
    /\ timer_next_id = 1
    /\ slp = [t \in TaskIds |-> NoSleep]
    /\ spolls = [t \in TaskIds |-> 0]
    /\ fired = <<>>

\* No future of test_channel has been created.
ProgIdle ==
    /\ tpc = [t \in TaskIds |-> "-"]
    /\ iter = [t \in TaskIds |-> 0]

\* A worker: pc is "unborn", "lock" (at rx.lock()), "recv" (in recv_timeout,
\* holding the lock), "run" (about to call work), "set" (the closure has
\* returned ret, set_result is next) or "finished"; work is the closure it
\* holds (0: none).
Worker(at, k, v) == [pc |-> at, work |-> k, ret |-> v]
Unborn == Worker("unborn", 0, 0)

\* The pool in the specifications of the other subsystems: never used.
PoolNew ==
    /\ pool_threads = {}
    /\ pool_queue = <<>>
    /\ workers = [w \in WorkerIds |-> Unborn]
    /\ submitted = 0
    /\ cell = [k \in Jobs |-> 0]
    /\ invoked = [k \in Jobs |-> <<>>]
    /\ fret = [k \in Jobs |-> 0]

\* Executor::new: the read end of the wake pipe is registered; its slot has
\* no waiter yet.
WakeNew == wake_waiter = FALSE

\* An EnterGuard: rt is the runtime it was created from, bo tells the
\* `_guard` local of Runtime::block_on from a guard returned by enter.
Guard(r, b) == [rt |-> r, bo |-> b]
NoGuard == Guard(0, FALSE)
\* The runtime step just taken: op, the runtime, the result.
REv(op, r, res) == [op |-> op, rt |-> r, res |-> res]

\* No Runtime has been created on the thread.
RtNone ==
    /\ RUNTIME = 0
    /\ rt_made = 0
    /\ rt_live = {}
    /\ guards = [g \in GuardIds |-> NoGuard]
    /\ nguards = 0
    /\ rt_ev = REv("-", 0, "-")

\* A slot: its pollfd (revents is zero outside react and left out) and its
\* FdWaiters.
Pollfd(fd, events) == [fd |-> fd, events |-> events]
FdWaiter(interest, waker) == [interest |-> interest, waker |-> waker]
FdWaiters(refcount, waiters) == [refcount |-> refcount, waiters |-> waiters]
RcEv(op, fd, n) == [op |-> op, fd |-> fd, n |-> n]

\* Reactor::new and Executor::new: slot 0 is the reactor's wake_rx; the read
\* end of the executor's wake pipe is registered, with no waiter yet.
ReactNew ==
    /\ pollfds = <<Pollfd(WakeRx, POLLIN), Pollfd(0 - PipeFd, 0)>>
    /\ fd_waiters = <<FdWaiters(0, <<>>), FdWaiters(1, <<>>)>>
    /\ regs = [fd \in Fds |-> 0]
    /\ rc_ev = RcEv("-", 0, 0)

\* std::time::Duration {secs, nanos}; None of Option<Duration>.
Duration(secs, nanos) == [secs |-> secs, nanos |-> nanos]
None == Duration(0 - 1, 0)
\* react's argument, whether react has made its poll call with it, the c_int
\* it handed over, and the c_int syscall::poll makes of the same argument.
Tmo(arg, called, handed, clamped) ==
    [arg |-> arg, called |-> called, handed |-> handed, clamped |-> clamped]
TmoIdle == tmo = Tmo(None, FALSE, 0, 0)

\* No Registration but the executor's (which counts as 0 in via).
OwnIdle ==
    /\ reg_fd = [g \in 1..MaxRegs |-> 0]
    /\ via = <<<<>>, <<>>>>

ExtIdle == RtNone /\ ReactNew /\ TmoIdle /\ OwnIdle

AuxIdle == TimeIdle /\ ProgIdle /\ PoolNew /\ WakeNew /\ ExtIdle

\* ------------------------------------------------------------ the executor
\* InnerExecutor::spawn / spawn_main: take the next id, push the task at the back.
spawn(q, nid) == [runq |-> Append(q, nid), next_id |-> nid + 1, id |-> nid]

\* Variant of pop_task that takes the front of the run queue.
pop_task_front(q) == [task |-> Head(q), runq |-> Tail(q)]

\* Executor::pop_task: VecDeque::pop_back.
pop_task(q) == [task |-> Last(q), runq |-> Front(q)]

\* Mutants of queue: one that leaves the task in the parked table, one that
\* pushes whether or not the task is parked, one without the self-wake test.
queue_keep(q, t, cur, w, task_id) ==
    IF cur = task_id
    THEN [runq |-> q, tasks |-> t, woken |-> TRUE]
    ELSE IF task_id \in t
         THEN [runq |-> Append(q, task_id), tasks |-> t, woken |-> w]
         ELSE [runq |-> q, tasks |-> t, woken |-> w]

queue_always(q, t, cur, w, task_id) ==
    IF cur = task_id
    THEN [runq |-> q, tasks |-> t, woken |-> TRUE]
    ELSE [runq |-> Append(q, task_id), tasks |-> t \ {task_id}, woken |-> w]

queue_noself(q, t, cur, w, task_id) ==
    IF task_id \in t
    THEN [runq |-> Append(q, task_id), tasks |-> t \ {task_id}, woken |-> w]
    ELSE [runq |-> q, tasks |-> t, woken |-> w]

\* Mutant of queue: the parked task is taken from the table and dropped.
queue_lost(q, t, cur, w, task_id) ==
    IF cur = task_id
    THEN [runq |-> q, tasks |-> t, woken |-> TRUE]
    ELSE [runq |-> q, tasks |-> t \ {task_id}, woken |-> w]

\* InnerExecutor::queue(task_id) on run queue q, parked table t, current id
\* cur and re-notified flag w.
queue(q, t, cur, w, task_id) ==
    IF cur = task_id
    THEN [runq |-> q, tasks |-> t, woken |-> TRUE]
    ELSE IF task_id \in t
         THEN [runq |-> Append(q, task_id), tasks |-> t \ {task_id}, woken |-> w]
         ELSE [runq |-> q, tasks |-> t, woken |-> w]

\* Mutant of after_pending: the task that returned Pending is not parked.
after_pending_lost(t, tsk, w) == [tasks |-> t, again |-> FALSE, woken |-> FALSE]

\* Mutant of after_pending: the task is parked whether or not it was
\* notified during its poll.
after_pending_park(t, tsk, w) ==
    [tasks |-> t \cup {tsk}, again |-> FALSE, woken |-> FALSE]

\* block_on, after a poll returned Pending (executor.rs:124-129):
\* current_woken.replace(false); park the task unless it woke itself.
after_pending(t, tsk, w) ==
    IF w
    THEN [tasks |-> t, again |-> TRUE, woken |-> FALSE]
    ELSE [tasks |-> t \cup {tsk}, again |-> FALSE, woken |-> FALSE]

\* Mutant of ready_returns: the root is treated like a spawned task.
ready_returns_never(tsk, main) == FALSE

\* block_on, after a poll returned Ready (executor.rs:110-122): TRUE when
\* block_on returns the output, FALSE when it breaks to the next pop.
ready_returns(tsk, main) == tsk = main

\* Mutant of set_result: the waker is neither taken nor invoked.
set_result_quiet(res, wk, v) == [result |-> v, waker |-> wk, wake |-> 0]

\* JoinHandle::set_result: store the result, take the waker.
set_result(res, wk, v) == [result |-> v, waker |-> 0, wake |-> wk]

\* Mutant of join_poll: a waker already stored is kept (get_or_insert).
join_poll_first(res, wk, cxw) ==
    IF res = 0
    THEN [result |-> 0, waker |-> IF wk = 0 THEN cxw ELSE wk, ret |-> 0]
    ELSE [result |-> 0, waker |-> wk, ret |-> res]

\* impl Future for JoinHandle: poll with the context's waker cxw.
join_poll(res, wk, cxw) ==
    IF res = 0
    THEN [result |-> 0, waker |-> cxw, ret |-> 0]
    ELSE [result |-> 0, waker |-> wk, ret |-> res]

\* The executor state a notification acts on, with the history kept beside it.
ExecX == [runq |-> runq, tasks |-> tasks, woken |-> current_woken,
          notes |-> notes, enq |-> enq, self |-> selfNotified]

\* One waker invocation on the executor thread: TaskWaker::wake -> queue(id).
Notified(X, id) ==
    LET r == queue(X.runq, X.tasks, current_id, X.woken, id)
        pushed == Count(r.runq, id) - Count(X.runq, id)
    IN  [runq |-> r.runq, tasks |-> r.tasks, woken |-> r.woken,
         notes |-> IF X.notes[id] >= 0
                   THEN [X.notes EXCEPT ![id] = 1] ELSE X.notes,
         enq |-> IF pushed > 0 THEN [X.enq EXCEPT ![id] = Inc(@)] ELSE X.enq,
         self |-> X.self \/ (pc = "poll" /\ id = task)]

\* ExecutorWaker::wake: queue(id) for every id read from the pipe, in order.
RECURSIVE NotifiedAll(_, _)
NotifiedAll(X, ids) ==
    IF ids = <<>> THEN X
    ELSE CHOOSE Z \in {NotifiedAll(Y, Tail(ids)) : Y \in {Notified(X, Head(ids))}} : TRUE

ApplyX(X) ==
    /\ runq' = X.runq
    /\ tasks' = X.tasks
    /\ current_woken' = X.woken
    /\ notes' = X.notes
    /\ enq' = X.enq
    /\ selfNotified' = X.self

InitCommon ==
    /\ runq = <<>>
    /\ tasks = {}
    /\ current_id = 0
    /\ current_woken = FALSE
    /\ next_id = 1
    /\ pc = "idle"
    /\ task = 0
    /\ main_task_id = 0
    /\ output = 0
    /\ jresult = [h \in Handles |-> 0]
    /\ jwaker = [h \in Handles |-> 0]
    /\ handles = {}
    /\ bstate = [k \in Closures |-> "none"]
    /\ pipe = <<>>
    /\ done = {}
    /\ notes = [t \in TaskIds |-> 0 - 1]
    /\ enq = [t \in TaskIds |-> 0]
    /\ pops = [t \in TaskIds |-> 0]
    /\ selfNotified = FALSE
    /\ jfills = [h \in Handles |-> 0]
    /\ jlast = [h \in Handles |-> 0]
    /\ ev = NoEv

\* task::spawn(fut), in runtime context: outside block_on or inside a poll.
Spawn ==
    /\ pc \in {"idle", "returned", "poll"}
    /\ next_id <= ntasks
    /\ LET s == spawn(runq, next_id)
       IN  /\ runq' = s.runq
           /\ next_id' = s.next_id
           /\ handles' = handles \cup {s.id}
    /\ ev' = NoEv
    /\ UNCHANGED <<tasks, current_id, current_woken, pc, task, main_task_id, output,
                   jresult, jwaker, bstate, pipe,
                   done, notes, enq, pops, selfNotified, jfills, jlast, ntasks, chanVars, auxVars>>

\* Executor::block_on up to the scheduler loop: spawn_main.
BlockOn ==
    /\ pc \in {"idle", "returned"}
    /\ next_id <= ntasks
    /\ LET s == spawn(runq, next_id)
       IN  /\ runq' = s.runq
           /\ next_id' = s.next_id
           /\ main_task_id' = s.id
    /\ pc' = "pop"
    /\ output' = 0
    /\ ev' = NoEv
    /\ UNCHANGED <<tasks, current_id, current_woken, task, joinVars,
                   done, notes, enq, pops, selfNotified, jfills, jlast, ntasks, chanVars, auxVars>>

\* The head of `while let Some(task) = self.pop_task()` and, when the run
\* queue is empty, the step to react (current_id.set(0)).
Pop ==
    /\ pc = "pop"
    /\ IF runq # <<>>
       THEN LET p == pop_task(runq)
            IN  /\ task' = p.task
                /\ runq' = p.runq
                /\ current_id' = p.task
                /\ current_woken' = FALSE
                /\ pc' = "poll"
                /\ pops' = [pops EXCEPT ![p.task] =
                               IF notes[p.task] >= 0 THEN Inc(@) ELSE @]
                /\ notes' = [notes EXCEPT ![p.task] = 0 - 1]
                /\ ev' = NoEv
       ELSE /\ current_id' = 0
            /\ pc' = "react"
            /\ ev' = NoEv
            /\ UNCHANGED <<task, runq, current_woken, pops, notes>>
    /\ selfNotified' = FALSE
    /\ UNCHANGED <<tasks, next_id, main_task_id, output, joinVars,
                   done, enq, jfills, jlast, ntasks, chanVars, auxVars>>

\* A waker of task id is invoked on the executor thread: by the future being
\* polled, by a reactor waiter during react, by a timer during tick, or by
\* code running in runtime context outside block_on.
Notify(id) ==
    /\ pc \in {"idle", "returned", "poll", "fds", "tick"}
    /\ id < next_id
    /\ ApplyX(Notified(ExecX, id))
    /\ ev' = IF notes[id] >= 1 THEN Ev("again", id, 0, 0) ELSE NoEv
    /\ UNCHANGED <<current_id, next_id, pc, task, main_task_id, output, joinVars,
                   done, pops, jfills, jlast, ntasks, chanVars, auxVars>>

\* The future being polled polls JoinHandle h.
PollJoin(h) ==
    /\ pc = "poll"
    /\ h \in handles
    /\ LET r == join_poll(jresult[h], jwaker[h], task)
       IN  /\ jresult' = [jresult EXCEPT ![h] = r.result]
           /\ jwaker' = [jwaker EXCEPT ![h] = r.waker]
           /\ jlast' = [jlast EXCEPT ![h] = IF r.ret = 0 THEN task ELSE @]
           /\ ev' = Ev("join", h, r.ret, jwaker[h])
    /\ UNCHANGED <<execVars, handles, bstate, pipe,
                   done, notes, enq, pops, selfNotified, jfills, ntasks, chanVars, auxVars>>

\* The future being polled calls spawn_blocking: ThreadPool::spawn.
SpawnBlocking(k) ==
    /\ pc = "poll"
    /\ bstate[k] = "none"
    /\ bstate' = [bstate EXCEPT ![k] = "queued"]
    /\ handles' = handles \cup {BHandle(k)}
    /\ ev' = NoEv
    /\ UNCHANGED <<execVars, jresult, jwaker, pipe,
                   done, notes, enq, pops, selfNotified, jfills, jlast, ntasks, chanVars, auxVars>>

\* A pool worker runs closure k: handle2.set_result(f()). The waker runs on
\* the worker thread, where EXECUTOR is empty: TaskWaker::wake writes the id
\* to the wake pipe.
BlockingRun(k, v) ==
    /\ bstate[k] = "queued"
    /\ bstate' = [bstate EXCEPT ![k] = "ran"]
    /\ LET h == BHandle(k)
           r == set_result(jresult[h], jwaker[h], v)
       IN  /\ jresult' = [jresult EXCEPT ![h] = r.result]
           /\ jwaker' = [jwaker EXCEPT ![h] = r.waker]
           /\ pipe' = IF r.wake # 0 THEN Append(pipe, r.wake) ELSE pipe
           /\ jfills' = [jfills EXCEPT ![h] =
                            IF jresult[h] = 0 /\ r.result # 0 THEN Inc(@) ELSE @]
           /\ jlast' = [jlast EXCEPT ![h] = 0]
           /\ ev' = Ev("set_result", h, v, 0)
    /\ UNCHANGED <<execVars, handles, done, notes, enq, pops, selfNotified, ntasks, chanVars, auxVars>>

\* The poll of `task` returns Pending.
PollPending ==
    /\ pc = "poll"
    /\ LET a == after_pending(tasks, task, current_woken)
       IN  /\ tasks' = a.tasks
           /\ current_woken' = a.woken
           /\ IF a.again
              THEN UNCHANGED <<task, pc, notes, enq, pops>>
              ELSE /\ task' = 0
                   /\ pc' = "pop"
                   /\ notes' = [notes EXCEPT ![task] = 0]
                   /\ enq' = [enq EXCEPT ![task] = 0]
                   /\ pops' = [pops EXCEPT ![task] = 0]
    /\ selfNotified' = FALSE
    /\ ev' = Ev("pending", task, 0, 0)
    /\ UNCHANGED <<runq, current_id, next_id, main_task_id, output, joinVars,
                   done, jfills, jlast, ntasks, chanVars, auxVars>>

\* The poll of `task` returns Ready(v). The root: block_on returns v. A
\* spawned task: its trampoline has called set_result on its JoinHandle (the
\* awaiter's waker runs on the executor thread), and the task is dropped.
PollReady(v) ==
    /\ pc = "poll"
    /\ IF ready_returns(task, main_task_id)
       THEN /\ output' = v
            /\ pc' = "returned"
            /\ UNCHANGED <<runq, tasks, current_woken, notes, enq,
                           jresult, jwaker, jfills, jlast>>
       ELSE LET r == set_result(jresult[task], jwaker[task], v)
            IN  /\ jresult' = [jresult EXCEPT ![task] = r.result]
                /\ jwaker' = [jwaker EXCEPT ![task] = r.waker]
                /\ jfills' = [jfills EXCEPT ![task] =
                                 IF jresult[task] = 0 /\ r.result # 0
                                 THEN Inc(@) ELSE @]
                /\ jlast' = [jlast EXCEPT ![task] = 0]
                /\ LET X == IF r.wake # 0 THEN Notified(ExecX, r.wake) ELSE ExecX
                   IN  /\ runq' = X.runq
                       /\ tasks' = X.tasks
                       /\ current_woken' = X.woken
                       /\ notes' = X.notes
                       /\ enq' = X.enq
                /\ pc' = "pop"
                /\ UNCHANGED output
    /\ task' = 0
    /\ done' = done \cup {task}
    /\ selfNotified' = FALSE
    /\ ev' = Ev("ready", task, v, 0)
    /\ UNCHANGED <<current_id, next_id, main_task_id, handles, bstate, pipe, pops,
                   ntasks, chanVars, auxVars>>

\* A waker of task id is invoked on a thread other than the executor's
\* (EXECUTOR is empty there): TaskWaker::wake writes the id to the wake pipe.
OffThreadWake(id) ==
    /\ id < next_id
    /\ Len(pipe) < MaxPipe
    /\ pipe' = Append(pipe, id)
    /\ ev' = NoEv
    /\ UNCHANGED <<execVars, jresult, jwaker, handles, bstate,
                   done, notes, enq, pops, selfNotified, jfills, jlast, ntasks, chanVars, auxVars>>

\* Reactor::react as the executor sees it: the wake pipe is the first slot;
\* when it is readable ExecutorWaker::wake drains it.
ReactPipe ==
    /\ pc = "react"
    /\ ApplyX(NotifiedAll(ExecX, pipe))
    /\ pipe' = <<>>
    /\ pc' = "fds"
    /\ ev' = NoEv
    /\ UNCHANGED <<current_id, next_id, task, main_task_id, output,
                   jresult, jwaker, handles, bstate,
                   done, pops, jfills, jlast, ntasks, chanVars, auxVars>>

\* react returns (the waiters of the other slots were woken by Notify).
ReactReturn ==
    /\ pc = "fds"
    /\ pc' = "tick"
    /\ ev' = NoEv
    /\ UNCHANGED <<runq, tasks, current_id, current_woken, next_id, task,
                   main_task_id, output, joinVars,
                   done, notes, enq, pops, selfNotified, jfills, jlast, ntasks, chanVars, auxVars>>

\* Timer::tick returns (the expired sleepers were woken by Notify).
TickReturn ==
    /\ pc = "tick"
    /\ pc' = "pop"
    /\ ev' = NoEv
    /\ UNCHANGED <<runq, tasks, current_id, current_woken, next_id, task,
                   main_task_id, output, joinVars,
                   done, notes, enq, pops, selfNotified, jfills, jlast, ntasks, chanVars, auxVars>>

\* The scheduler: spawn, block_on's loop, notifications. The root future
\* returns any value; the spawned futures, whose JoinHandles nobody polls
\* here, all return 1.
InitExec == InitCommon /\ ChanIdle /\ AuxIdle /\ ntasks = ExecTasks

NextExec ==
    \/ Spawn
    \/ BlockOn
    \/ Pop
    \/ \E id \in 1..ntasks : Notify(id)
    \/ \E id \in 1..ntasks : OffThreadWake(id)
    \/ PollPending
    \/ \E v \in Values : (task = main_task_id \/ v = 1) /\ PollReady(v)
    \/ ReactPipe
    \/ ReactReturn
    \/ TickReturn

SpecExec == InitExec /\ [][NextExec]_vars

\* The steps block_on takes by itself once called: every poll returns, and
\* react and tick return (with a timeout or an event).
DriverStep ==
    \/ Pop
    \/ PollPending
    \/ \E v \in Values : (task = main_task_id \/ v = 1) /\ PollReady(v)
    \/ ReactPipe
    \/ ReactReturn
    \/ TickReturn

\* The scheduler with a driver that keeps running.
SpecExecFair == SpecExec /\ WF_vars(DriverStep)

\* The scheduler with the JoinHandles of its tasks and of blocking closures:
\* the futures await JoinHandles only, so every wake comes from set_result.
InitJoin == InitCommon /\ ChanIdle /\ AuxIdle /\ ntasks = JoinTasks

NextJoin ==
    \/ Spawn
    \/ BlockOn
    \/ Pop
    \/ \E h \in Handles : PollJoin(h)
    \/ \E k \in Closures : SpawnBlocking(k)
    \/ \E k \in Closures, v \in Values : BlockingRun(k, v)
    \/ PollPending
    \/ \E v \in Values : PollReady(v)
    \/ ReactPipe
    \/ ReactReturn
    \/ TickReturn

SpecJoin == InitJoin /\ [][NextJoin]_vars

\* --------------------------------------------- the cross-thread wake-up
\* Mutant of was_woken: the slot is never reported empty.
was_woken_never(waiter) == FALSE

\* Registration::was_woken: the Registration has no outstanding waiter entry
\* in its slot.
was_woken(waiter) == ~waiter

\* What the steps of block_on around react leave alone.
wakeFrame ==
    <<current_id, next_id, task, main_task_id, output, jresult, jwaker, handles,
      bstate, done, pops, jfills, jlast, ntasks, chanVars, timeVars, progVars,
      poolVars, extVars>>

\* block_on, the run queue drained: the waiter of the wake pipe is put back
\* if it was consumed (executor.rs:135-137), and react is called.
ReactArm ==
    /\ pc = "react"
    /\ wake_waiter' = IF was_woken(wake_waiter) THEN TRUE ELSE wake_waiter
    /\ pc' = "wait"
    /\ ev' = Ev("arm", 0, IF was_woken(wake_waiter) THEN 1 ELSE 0, 0)
    /\ UNCHANGED <<runq, tasks, current_woken, notes, enq, selfNotified, pipe>>
    /\ UNCHANGED wakeFrame

\* react(None), with no timer and no other fd: poll(2) returns when the slot
\* of the wake pipe is active and the pipe is readable. The waiter of the
\* slot is drained and its waker invoked: ExecutorWaker::wake reads the ids
\* and calls queue(id) for each, in the order read.
ReactWake ==
    /\ pc = "wait"
    /\ wake_waiter
    /\ pipe # <<>>
    /\ \E X \in {NotifiedAll(ExecX, pipe)} : ApplyX(X)
    /\ pipe' = <<>>
    /\ wake_waiter' = FALSE
    /\ pc' = "tick"
    /\ ev' = Ev("wake_pipe", 0, Len(pipe), 0)
    /\ UNCHANGED wakeFrame

\* poll(2), waiting with nothing to report, fails (a signal interrupts
\* it): react returns at once (reactor.rs: Err(_) => return).
ReactInterrupted ==
    /\ pc = "wait"
    /\ ~(wake_waiter /\ pipe # <<>>)
    /\ pc' = "tick"
    /\ ev' = NoEv
    /\ UNCHANGED <<runq, tasks, current_woken, notes, enq, selfNotified, pipe,
                   wake_waiter>>
    /\ UNCHANGED wakeFrame

\* A step of the executor thread inside block_on, other than the part of a
\* poll the future chooses.
ExecutorStep ==
    \/ Pop
    \/ PollPending
    \/ \E v \in Values : PollReady(v)
    \/ ReactArm
    \/ ReactWake
    \/ TickReturn

\* The scheduler with its wake pipe: the futures await JoinHandles, blocking
\* closures complete on pool threads, and wakers of any task are invoked on
\* other threads. Nothing but the wake pipe ends a react.
InitWake == InitCommon /\ ChanIdle /\ AuxIdle /\ ntasks = WakeTasks

NextWake ==
    \/ Spawn
    \/ BlockOn
    \/ \E h \in Handles : PollJoin(h)
    \/ \E k \in Closures : SpawnBlocking(k)
    \/ \E k \in Closures, v \in Values : BlockingRun(k, v)
    \/ \E id \in 1..ntasks : OffThreadWake(id)
    \/ ReactInterrupted
    \/ ExecutorStep

\* The executor thread keeps running: a poll returns, and block_on takes
\* its next step whenever it has one.
SpecWake == InitWake /\ [][NextWake]_vars /\ WF_vars(ExecutorStep)

\* ------------------------------------------------------------- the timer
\* An entry of InnerTimer.timers: the key and the Option<Waker> (0: None).
Entry(k, w) == [deadline |-> k.deadline, id |-> k.id, waker |-> w]
KeyOf(e) == Key(e.deadline, e.id)
HasKey(tm, k) == \E e \in tm : KeyOf(e) = k

\* The derived Ord of Sleep: by deadline, then by id.
KeyLess(a, b) ==
    a.deadline < b.deadline \/ (a.deadline = b.deadline /\ a.id < b.id)

\* BTreeMap::first_key_value / first_entry on a map that is not empty.
first_entry(tm) == CHOOSE e \in tm : \A o \in tm : o = e \/ KeyLess(e, o)

\* sleep_until(deadline): take the next id, insert the key with no waker.
sleep_until(tm, nid, deadline) ==
    [timers |-> tm \cup {Entry(Key(deadline, nid), 0)},
     next_id |-> nid + 1,
     key |-> Key(deadline, nid)]

\* Mutant of next_deadline: the duration to the last deadline of the map.
next_deadline_last(tm, t) ==
    IF tm = {} THEN 0 - 1
    ELSE LET last == CHOOSE e \in tm : \A o \in tm : o = e \/ KeyLess(o, e)
         IN  IF last.deadline > t THEN last.deadline - t ELSE 0

\* Timer::next_deadline at instant t: -1 stands for None.
next_deadline(tm, t) ==
    IF tm = {} THEN 0 - 1
    ELSE LET first == first_entry(tm)
         IN  IF first.deadline > t THEN first.deadline - t ELSE 0

\* Mutant of tick: an entry whose deadline is the current instant stays.
RECURSIVE tick_strict(_, _)
tick_strict(tm, t) ==
    IF tm = {} THEN [timers |-> {}, wakes |-> <<>>]
    ELSE LET entry == first_entry(tm)
         IN  IF entry.deadline >= t THEN [timers |-> tm, wakes |-> <<>>]
             ELSE LET r == tick_strict(tm \ {entry}, t)
                  IN  [timers |-> r.timers,
                       wakes |-> (IF entry.waker # 0 THEN <<entry.waker>>
                                  ELSE <<>>) \o r.wakes]

\* Mutant of tick: the expired entries are taken from the back (last
\* expired first).
RECURSIVE tick_rev(_, _)
tick_rev(tm, t) ==
    IF tm = {} THEN [timers |-> {}, wakes |-> <<>>]
    ELSE LET entry == first_entry(tm)
         IN  IF entry.deadline > t THEN [timers |-> tm, wakes |-> <<>>]
             ELSE LET r == tick_rev(tm \ {entry}, t)
                  IN  [timers |-> r.timers,
                       wakes |-> r.wakes \o (IF entry.waker # 0
                                             THEN <<entry.waker>> ELSE <<>>)]

\* Mutant of tick: an entry is taken one unit of time before its deadline.
RECURSIVE tick_early(_, _)
tick_early(tm, t) ==
    IF tm = {} THEN [timers |-> {}, wakes |-> <<>>]
    ELSE LET entry == first_entry(tm)
         IN  IF entry.deadline > t + 1 THEN [timers |-> tm, wakes |-> <<>>]
             ELSE LET r == tick_early(tm \ {entry}, t)
                  IN  [timers |-> r.timers,
                       wakes |-> (IF entry.waker # 0 THEN <<entry.waker>>
                                  ELSE <<>>) \o r.wakes]

\* Timer::tick at instant t: the entries left and the wakers invoked, in
\* the order of their invocation.
RECURSIVE tick(_, _)
tick(tm, t) ==
    IF tm = {} THEN [timers |-> {}, wakes |-> <<>>]
    ELSE LET entry == first_entry(tm)
         IN  IF entry.deadline > t THEN [timers |-> tm, wakes |-> <<>>]
             ELSE LET r == tick(tm \ {entry}, t)
                  IN  [timers |-> r.timers,
                       wakes |-> (IF entry.waker # 0 THEN <<entry.waker>>
                                  ELSE <<>>) \o r.wakes]

\* Mutant of sleep_poll: Ready as soon as the deadline has passed
\* (Sleep::is_elapsed), whether or not tick has consumed the entry.
sleep_poll_elapsed(tm, k, cxw) ==
    IF ~HasKey(tm, k) \/ k.deadline <= clock THEN [timers |-> tm, ready |-> TRUE]
    ELSE [timers |-> {IF KeyOf(e) = k /\ e.waker = 0 THEN Entry(k, cxw) ELSE e :
                         e \in tm},
          ready |-> FALSE]

\* impl Future for Sleep: poll of the Sleep with key k, context waker cxw.
sleep_poll(tm, k, cxw) ==
    IF ~HasKey(tm, k) THEN [timers |-> tm, ready |-> TRUE]
    ELSE [timers |-> {IF KeyOf(e) = k /\ e.waker = 0 THEN Entry(k, cxw) ELSE e :
                         e \in tm},
          ready |-> FALSE]

\* The future being polled calls sleep(d): sleep_until(Instant::now() + d).
SleepNew(d) ==
    /\ pc = "poll"
    /\ slp[task] = NoSleep
    /\ timer_next_id <= MaxSleeps
    /\ LET r == sleep_until(timers, timer_next_id, clock + d)
       IN  /\ timers' = r.timers
           /\ timer_next_id' = r.next_id
           /\ slp' = [slp EXCEPT ![task] = r.key]
    /\ spolls' = [spolls EXCEPT ![task] = 0]
    /\ ev' = Ev("sleep", task, d, 0)
    /\ UNCHANGED <<execVars, joinVars, done, notes, enq, pops, selfNotified,
                   jfills, jlast, ntasks, chanVars, clock, fired, progVars, poolVars, wakeVars, extVars>>

\* The future being polled awaits the Sleep it holds. Ready: the future
\* goes on. Pending: the poll of the task returns Pending and block_on
\* parks the task (executor.rs:124-129).
SleepAwait ==
    /\ pc = "poll"
    /\ slp[task] # NoSleep
    /\ LET r == sleep_poll(timers, slp[task], task)
       IN  /\ timers' = r.timers
           /\ IF r.ready
              THEN /\ slp' = [slp EXCEPT ![task] = NoSleep]
                   /\ fired' = Append(fired, slp[task].id)
                   /\ ev' = Ev("slept", task, slp[task].deadline, slp[task].id)
                   /\ UNCHANGED <<tasks, current_woken, task, pc, notes, enq, pops,
                                  selfNotified>>
              ELSE /\ LET a == after_pending(tasks, task, current_woken)
                      IN  /\ tasks' = a.tasks
                          /\ current_woken' = a.woken
                          /\ IF a.again
                             THEN UNCHANGED <<task, pc, notes, enq, pops>>
                             ELSE /\ task' = 0
                                  /\ pc' = "pop"
                                  /\ notes' = [notes EXCEPT ![task] = 0]
                                  /\ enq' = [enq EXCEPT ![task] = 0]
                                  /\ pops' = [pops EXCEPT ![task] = 0]
                   /\ selfNotified' = FALSE
                   /\ ev' = Ev("pending", task, 0, 0)
                   /\ UNCHANGED <<slp, fired>>
    /\ spolls' = [spolls EXCEPT ![task] = Inc(@)]
    /\ UNCHANGED <<runq, current_id, next_id, main_task_id, output, joinVars,
                   done, jfills, jlast, ntasks, chanVars, clock, timer_next_id, progVars, poolVars, wakeVars, extVars>>

\* The future being polled drops the Sleep it holds: Sleep has no Drop
\* implementation, the timer map is not touched.
SleepDrop ==
    /\ pc = "poll"
    /\ slp[task] # NoSleep
    /\ slp' = [slp EXCEPT ![task] = NoSleep]
    /\ ev' = Ev("sleep_drop", task, slp[task].deadline, slp[task].id)
    /\ UNCHANGED <<execVars, joinVars, done, notes, enq, pops, selfNotified,
                   jfills, jlast, ntasks, chanVars, clock, timers, timer_next_id,
                   spolls, fired, progVars, poolVars, wakeVars, extVars>>

\* The future being polled, holding no Sleep, returns Ready.
SleepDone == pc = "poll" /\ slp[task] = NoSleep /\ PollReady(1)

\* block_on at react, with nothing but timers to wait for: poll(2) returns
\* when the timeout next_deadline() has elapsed (react(None) blocks).
TimerReact ==
    /\ pc = "react"
    /\ pipe = <<>>
    /\ LET timeout == next_deadline(timers, clock)
       IN  /\ timeout >= 0
           /\ clock' = clock + timeout
    /\ pc' = "tick"
    /\ ev' = NoEv
    /\ UNCHANGED <<runq, tasks, current_id, current_woken, next_id, task,
                   main_task_id, output, joinVars, done, notes, enq, pops,
                   selfNotified, jfills, jlast, ntasks, chanVars,
                   timers, timer_next_id, slp, spolls, fired, progVars, poolVars, wakeVars, extVars>>

\* block_on calls Timer::tick: the wakers of the expired entries are invoked
\* on the executor thread, in the order of the map.
TimerTick ==
    /\ pc = "tick"
    /\ \E r \in {tick(timers, clock)} :
           /\ timers' = r.timers
           /\ \E X \in {NotifiedAll(ExecX, r.wakes)} : ApplyX(X)
           /\ ev' = Ev("tick", 0, Len(r.wakes), 0)
    /\ pc' = "pop"
    /\ UNCHANGED <<current_id, next_id, task, main_task_id, output, joinVars,
                   done, pops, jfills, jlast, ntasks, chanVars,
                   clock, timer_next_id, slp, spolls, fired, progVars, poolVars, wakeVars, extVars>>

\* Time passes, up to the instant max.
ElapseTo(max) ==
    /\ clock < max
    /\ clock' = clock + 1
    /\ ev' = NoEv
    /\ UNCHANGED <<execVars, joinVars, done, notes, enq, pops, selfNotified,
                   jfills, jlast, ntasks, chanVars,
                   timers, timer_next_id, slp, spolls, fired, progVars, poolVars, wakeVars, extVars>>

Elapse == ElapseTo(MaxClock)

\* The scheduler with the timer: the futures create Sleeps, await them or
\* drop them, and are woken by nothing but the timer.
InitTimer == InitCommon /\ ChanIdle /\ AuxIdle /\ ntasks = TimerTasks

NextTimer ==
    \/ Spawn
    \/ BlockOn
    \/ Pop
    \/ \E d \in 0..MaxDur : SleepNew(d)
    \/ SleepAwait
    \/ SleepDrop
    \/ SleepDone
    \/ TimerReact
    \/ TimerTick
    \/ Elapse

SpecTimer == InitTimer /\ [][NextTimer]_vars

\* The future being polled hands the Sleep it holds to task u (Sleep is
\* Unpin and can be moved after a poll); u has not polled it yet.
SleepMove(u) ==
    /\ pc = "poll"
    /\ slp[task] # NoSleep
    /\ u # task /\ u < next_id /\ u \notin done
    /\ slp[u] = NoSleep
    /\ slp' = [slp EXCEPT ![task] = NoSleep, ![u] = slp[task]]
    /\ spolls' = [spolls EXCEPT ![u] = 0]
    /\ ev' = Ev("sleep_move", u, slp[task].deadline, slp[task].id)
    /\ UNCHANGED <<execVars, joinVars, done, notes, enq, pops, selfNotified,
                   jfills, jlast, ntasks, chanVars, clock, timers, timer_next_id,
                   fired, progVars, poolVars, wakeVars, extVars>>

\* The timer with futures that are also woken by other sources (Notify) and
\* that pass their Sleeps on: a Sleep is polled with more than one waker.
NextRepoll ==
    \/ NextTimer
    \/ \E id \in 1..ntasks : Notify(id)
    \/ \E u \in 1..ntasks : SleepMove(u)

SpecRepoll == InitTimer /\ [][NextRepoll]_vars

\* ------------------------------------------- the single-thread channel
\* The sends started so far, by all senders.
Started ==
    Cardinality({p \in SenderIds \X (1..MaxSends) : nsent[p[1]] >= p[2]})

\* Mutant of strong_count: the Receiver's reference is not counted.
strong_count_senders(snd, gone) == Cardinality(snd)

\* Rc::strong_count(&channel): one per Sender alive, one for the Receiver.
strong_count(snd, gone) == Cardinality(snd) + (IF gone THEN 0 ELSE 1)

\* Mutant of push_back: the value goes to the front of the queue.
push_front(q, v) == <<v>> \o q

\* VecDeque::push_back on Channel.queue, as send calls it.
push_back(q, v) == Append(q, v)

\* Mutant of no_senders: the test the senders' Drop uses.
no_senders_two(count) == count = 2

\* Receiver::recv's test that no sender is left.
no_senders(count) == count = 1

\* Mutant of under_capacity: a full queue still takes a value.
under_capacity_incl(len, cap) == len <= cap

\* Sender::send's test "if under capacity, just push".
under_capacity(len, cap) == len < cap

\* Mutant of send_poll: the capacity is tested before recv_gone.
send_poll_capfirst(q, cap, gone) ==
    IF under_capacity(Len(q), cap) THEN "Ok"
    ELSE IF gone THEN "Err"
    ELSE "Pending"

\* One poll of Sender::send's poll_fn.
send_poll(q, cap, gone) ==
    IF gone THEN "Err"
    ELSE IF under_capacity(Len(q), cap) THEN "Ok"
    ELSE "Pending"

\* One poll of Receiver::recv's poll_fn.
recv_poll(q, count) ==
    IF q # <<>> THEN "Some"
    ELSE IF no_senders(count) THEN "None"
    ELSE "Pending"

\* Mutant of arrange_wake: the entry is pushed without looking for one.
arrange_wake_push(w, id) == Append(w, id)

\* Sender::send, "arrange for us to be woken": the entry of the sender's id
\* gets the waker in place, or a new entry is pushed at the back.
arrange_wake(w, id) == IF id \in Range(w) THEN w ELSE Append(w, id)

\* tx_wakers.retain(|w| w.0 != id)
RECURSIVE retain(_, _)
retain(w, id) ==
    IF w = <<>> THEN <<>>
    ELSE IF Head(w) = id THEN retain(Tail(w), id)
    ELSE <<Head(w)>> \o retain(Tail(w), id)

\* channel(cap) and unbounded_channel(): Channel::new, Sender 1, the Receiver.
ChannelNew(cap) ==
    /\ ch_queue = <<>>
    /\ capacity = cap
    /\ tx_wakers = <<>>
    /\ rx_waker = FALSE
    /\ recv_gone = FALSE
    /\ last_id = 1
    /\ senders = {1}
    /\ sending = [s \in SenderIds |-> 0]
    /\ nsent = [s \in SenderIds |-> IF s = 1 THEN 0 ELSE 0 - 1]
    /\ woken = {}
    /\ rx_woken = FALSE
    /\ rx_parked = FALSE
    /\ sent = <<>>
    /\ rcvd = <<>>
    /\ cev = NoCEv
    /\ buffer = <<>>
    /\ tx_waker = 0
    /\ stx = [s \in SenderIds |-> Idle]
    /\ srx = Idle

\* Sender::clone of mpsc_unsync.rs (takes the next id); the derived Clone of
\* its UnboundedSender and of the senders of mpsc.rs.
Clone(s) ==
    /\ stx[s].pc = "idle"
    /\ s \in senders
    /\ LET made == Cardinality({k \in SenderIds : nsent[k] >= 0})
           counted == kind = "unsync" /\ capacity # usize_MAX
           id == IF counted THEN last_id + 1 ELSE made + 1
       IN  /\ id \in 1..(IF kind = "sync" THEN SyncSenders ELSE MaxSenders)
           /\ last_id' = IF counted THEN id ELSE last_id
           /\ senders' = senders \cup {id}
           /\ nsent' = [nsent EXCEPT ![id] = 0]
    /\ cev' = NoCEv
    /\ UNCHANGED <<ch_queue, capacity, tx_wakers, rx_waker, recv_gone, sending,
                   woken, rx_woken, rx_parked, sent, rcvd>>
    /\ UNCHANGED <<execVars, joinVars, histVars, syncVars, auxVars>>

\* One poll of the future of Sender::send: the first poll of a new send, or
\* a later poll of the send in flight (after a wake or spuriously).
SendPoll(s) ==
    /\ kind = "unsync"
    /\ s \in senders
    /\ capacity # usize_MAX
    /\ sending[s] # 0 \/ Started < MaxSends
    /\ LET v == IF sending[s] # 0 THEN sending[s] ELSE Val(s, nsent[s] + 1)
           r == send_poll(ch_queue, capacity, recv_gone)
       IN  /\ nsent' = IF sending[s] # 0 THEN nsent
                       ELSE [nsent EXCEPT ![s] = nsent[s] + 1]
           /\ cev' = CEv("send", s, r, v)
           /\ sending' = [sending EXCEPT ![s] = IF r = "Pending" THEN v ELSE 0]
           /\ ch_queue' = IF r = "Ok" THEN push_back(ch_queue, v) ELSE ch_queue
           /\ sent' = IF r = "Ok" THEN Append(sent, v) ELSE sent
           /\ rx_waker' = IF r = "Ok" THEN FALSE ELSE rx_waker
           /\ rx_woken' = IF r = "Ok" THEN rx_woken \/ rx_waker ELSE rx_woken
           /\ tx_wakers' = IF r = "Pending" THEN arrange_wake(tx_wakers, s)
                           ELSE tx_wakers
    /\ woken' = woken \ {s}
    /\ UNCHANGED <<capacity, recv_gone, last_id, senders, rx_parked, rcvd>>
    /\ UNCHANGED <<execVars, joinVars, histVars, syncVars, auxVars>>

\* UnboundedSender::send: never blocks.
UnboundedSend(s) ==
    /\ kind = "unsync"
    /\ s \in senders
    /\ capacity = usize_MAX
    /\ Started < MaxSends
    /\ LET v == Val(s, nsent[s] + 1)
       IN  /\ nsent' = [nsent EXCEPT ![s] = nsent[s] + 1]
           /\ IF recv_gone
              THEN /\ cev' = CEv("send", s, "Err", v)
                   /\ UNCHANGED <<ch_queue, sent, rx_waker, rx_woken>>
              ELSE /\ cev' = CEv("send", s, "Ok", v)
                   /\ ch_queue' = push_back(ch_queue, v)
                   /\ sent' = Append(sent, v)
                   /\ rx_waker' = FALSE
                   /\ rx_woken' = (rx_woken \/ rx_waker)
    /\ UNCHANGED <<capacity, tx_wakers, recv_gone, last_id, senders, sending,
                   woken, rx_parked, rcvd>>
    /\ UNCHANGED <<execVars, joinVars, histVars, syncVars, auxVars>>

\* Drop for Sender and for UnboundedSender (whose waker list is always
\* empty); a send in flight is dropped with its sender.
DropSender(s) ==
    /\ kind = "unsync"
    /\ s \in senders
    /\ tx_wakers' = retain(tx_wakers, s)
    /\ IF strong_count(senders, recv_gone) = 2
       THEN rx_waker' = FALSE /\ rx_woken' = (rx_woken \/ rx_waker)
       ELSE UNCHANGED <<rx_waker, rx_woken>>
    /\ senders' = senders \ {s}
    /\ sending' = [sending EXCEPT ![s] = 0]
    /\ woken' = woken \ {s}
    /\ cev' = CEv("drop", s, "-", 0)
    /\ UNCHANGED <<ch_queue, capacity, recv_gone, last_id, nsent, rx_parked,
                   sent, rcvd>>
    /\ UNCHANGED <<execVars, joinVars, histVars, syncVars, auxVars>>

\* One poll of the future of Receiver::recv.
Recv ==
    /\ kind = "unsync"
    /\ ~recv_gone
    /\ LET r == recv_poll(ch_queue, strong_count(senders, recv_gone))
           wake == r = "Some" /\ capacity # usize_MAX /\ tx_wakers # <<>>
       IN  /\ cev' = CEv("recv", 0, r, IF r = "Some" THEN Head(ch_queue) ELSE 0)
           /\ ch_queue' = IF r = "Some" THEN Tail(ch_queue) ELSE ch_queue
           /\ rcvd' = IF r = "Some" THEN Append(rcvd, Head(ch_queue)) ELSE rcvd
           /\ tx_wakers' = IF wake THEN Tail(tx_wakers) ELSE tx_wakers
           /\ woken' = IF wake THEN woken \cup {Head(tx_wakers)} ELSE woken
           /\ rx_waker' = IF r = "Pending" THEN TRUE ELSE rx_waker
           /\ rx_parked' = (r = "Pending")
    /\ rx_woken' = FALSE
    /\ UNCHANGED <<capacity, recv_gone, last_id, senders, sending, nsent, sent>>
    /\ UNCHANGED <<execVars, joinVars, histVars, syncVars, auxVars>>

\* Drop for Receiver: every sender in the waker list is woken.
DropReceiver ==
    /\ kind = "unsync"
    /\ ~recv_gone
    /\ recv_gone' = TRUE
    /\ tx_wakers' = <<>>
    /\ woken' = woken \cup Range(tx_wakers)
    /\ rx_parked' = FALSE
    /\ cev' = CEv("drop", 0, "-", 0)
    /\ UNCHANGED <<ch_queue, capacity, rx_waker, last_id, senders, sending,
                   nsent, rx_woken, sent, rcvd>>
    /\ UNCHANGED <<execVars, joinVars, histVars, syncVars, auxVars>>

\* ------------------------------------------- the cross-thread channel
\* What every step of the cross-thread channel leaves alone.
syncFrame ==
    <<execVars, joinVars, histVars, capacity, tx_wakers, last_id, kind, auxVars>>

\* std::sync::mpsc::SyncSender::try_send on a queue q of bound cap.
try_send(q, cap, gone) ==
    IF gone THEN "Disconnected"
    ELSE IF Len(q) < cap THEN "Ok"
    ELSE "Full"

\* std::sync::mpsc::Receiver::try_recv: Ok(v) is v, Err(Empty) is 0 and
\* Err(Disconnected) is -1.
try_recv(q, snd) ==
    IF q # <<>> THEN Head(q)
    ELSE IF snd = {} THEN 0 - 1
    ELSE 0

\* Sender::send of mpsc.rs, a try_send of its poll: the first of the poll
\* (at "idle", starting a send or polling the one in flight) or the one
\* after the waker was set (at "retry").
SyncSendTry(s) ==
    /\ kind = "sync"
    /\ capacity # usize_MAX
    /\ s \in senders
    /\ stx[s].pc \in {"idle", "retry"}
    /\ stx[s].pc = "idle" => (sending[s] # 0 \/ Started < MaxSends)
    /\ LET first == stx[s].pc = "idle"
           fresh == first /\ sending[s] = 0
           v == IF fresh THEN Val(s, nsent[s] + 1) ELSE sending[s]
           set == stx[s].set
           r == try_send(ch_queue, capacity, recv_gone)
           now == IF r = "Disconnected" /\ ~set THEN "Err"
                  ELSE IF r = "Full" /\ set THEN "Pending"
                  ELSE "-"
       IN  /\ nsent' = IF fresh THEN [nsent EXCEPT ![s] = nsent[s] + 1] ELSE nsent
           /\ woken' = IF first THEN woken \ {s} ELSE woken
           /\ ch_queue' = IF r = "Ok" THEN push_back(ch_queue, v) ELSE ch_queue
           /\ sent' = IF r = "Ok" THEN Append(sent, v) ELSE sent
           /\ sending' = [sending EXCEPT ![s] = IF now = "Err" THEN 0 ELSE v]
           /\ cev' = IF now = "-" THEN NoCEv ELSE CEv("send", s, now, v)
           /\ stx' = [stx EXCEPT ![s] =
                        IF now # "-" THEN Idle
                        ELSE IF r = "Ok" THEN At("wake", set, "Ok")
                        ELSE IF r = "Disconnected" THEN At("clear", TRUE, "Err")
                        ELSE At("set", FALSE, "-")]
    /\ UNCHANGED <<rx_waker, recv_gone, senders, rx_woken, rx_parked, rcvd,
                   buffer, tx_waker, srx>>
    /\ UNCHANGED syncFrame

\* Sender::send of mpsc.rs: store the context's waker in the shared slot.
SyncSetTxWaker(s) ==
    /\ stx[s].pc = "set"
    /\ tx_waker' = s
    /\ stx' = [stx EXCEPT ![s] = At("retry", TRUE, "-")]
    /\ cev' = NoCEv
    /\ UNCHANGED <<ch_queue, rx_waker, recv_gone, senders, sending, nsent, woken,
                   rx_woken, rx_parked, sent, rcvd, buffer, srx>>
    /\ UNCHANGED syncFrame

\* Sender::send and UnboundedSender::send of mpsc.rs, after the value was
\* pushed: take the receiver's waker and wake it.
SyncWakeRx(s) ==
    /\ stx[s].pc = "wake"
    /\ rx_waker' = FALSE
    /\ rx_woken' = (rx_woken \/ rx_waker)
    /\ IF stx[s].set
       THEN /\ stx' = [stx EXCEPT ![s] = At("clear", TRUE, "Ok")]
            /\ cev' = NoCEv
            /\ UNCHANGED sending
       ELSE /\ stx' = [stx EXCEPT ![s] = Idle]
            /\ cev' = CEv("send", s, "Ok", sending[s])
            /\ sending' = [sending EXCEPT ![s] = 0]
    /\ UNCHANGED <<ch_queue, recv_gone, senders, nsent, woken, rx_parked, sent,
                   rcvd, buffer, tx_waker, srx>>
    /\ UNCHANGED syncFrame

\* Sender::send of mpsc.rs, ready after it set a waker: empty the slot.
SyncClearTxWaker(s) ==
    /\ stx[s].pc = "clear"
    /\ tx_waker' = 0
    /\ stx' = [stx EXCEPT ![s] = Idle]
    /\ cev' = CEv("send", s, stx[s].res, sending[s])
    /\ sending' = [sending EXCEPT ![s] = 0]
    /\ UNCHANGED <<ch_queue, rx_waker, recv_gone, senders, nsent, woken, rx_woken,
                   rx_parked, sent, rcvd, buffer, srx>>
    /\ UNCHANGED syncFrame

\* UnboundedSender::send of mpsc.rs: std's send, then SyncWakeRx.
SyncUnboundedSend(s) ==
    /\ kind = "sync"
    /\ capacity = usize_MAX
    /\ s \in senders
    /\ stx[s].pc = "idle"
    /\ Started < MaxSends
    /\ LET v == Val(s, nsent[s] + 1)
       IN  /\ nsent' = [nsent EXCEPT ![s] = nsent[s] + 1]
           /\ IF recv_gone
              THEN /\ cev' = CEv("send", s, "Err", v)
                   /\ UNCHANGED <<ch_queue, sent, sending, stx>>
              ELSE /\ cev' = NoCEv
                   /\ ch_queue' = push_back(ch_queue, v)
                   /\ sent' = Append(sent, v)
                   /\ sending' = [sending EXCEPT ![s] = v]
                   /\ stx' = [stx EXCEPT ![s] = At("wake", FALSE, "Ok")]
    /\ UNCHANGED <<rx_waker, recv_gone, senders, woken, rx_woken, rx_parked, rcvd,
                   buffer, tx_waker, srx>>
    /\ UNCHANGED syncFrame

\* Drop::drop for Sender (always wakes the receiver) and for UnboundedSender
\* (wakes it when the rx_waker Arc has two owners) of mpsc.rs; a send in
\* flight is dropped with its sender. The fields are dropped afterwards.
SyncDropSender(s) ==
    /\ kind = "sync"
    /\ s \in senders
    /\ stx[s].pc = "idle"
    /\ IF capacity # usize_MAX \/ strong_count(senders, recv_gone) = 2
       THEN rx_waker' = FALSE /\ rx_woken' = (rx_woken \/ rx_waker)
       ELSE UNCHANGED <<rx_waker, rx_woken>>
    /\ stx' = [stx EXCEPT ![s] = At("drop", FALSE, "-")]
    /\ sending' = [sending EXCEPT ![s] = 0]
    /\ woken' = woken \ {s}
    /\ cev' = NoCEv
    /\ UNCHANGED <<ch_queue, recv_gone, senders, nsent, rx_parked, sent, rcvd,
                   buffer, tx_waker, srx>>
    /\ UNCHANGED syncFrame

\* The fields of a dropped sender of mpsc.rs are dropped: std's sender
\* (the channel disconnects with the last one) and the Arcs.
SyncDropSenderFields(s) ==
    /\ stx[s].pc = "drop"
    /\ senders' = senders \ {s}
    /\ stx' = [stx EXCEPT ![s] = Idle]
    /\ cev' = CEv("drop", s, "-", 0)
    /\ UNCHANGED <<ch_queue, rx_waker, recv_gone, sending, nsent, woken, rx_woken,
                   rx_parked, sent, rcvd, buffer, tx_waker, srx>>
    /\ UNCHANGED syncFrame

\* Receiver::recv of mpsc.rs on a bounded channel, a try_recv of its poll:
\* the first (at "idle") or the one after the waker was set (at "retry").
SyncRecvTry ==
    /\ kind = "sync"
    /\ capacity # usize_MAX
    /\ ~recv_gone
    /\ srx.pc \in {"idle", "retry"}
    /\ LET r == try_recv(ch_queue, senders)
           set == srx.set
           now == IF r > 0 THEN "Some"
                  ELSE IF r < 0 THEN "None"
                  ELSE IF set THEN "Pending"
                  ELSE "-"
       IN  /\ ch_queue' = IF r > 0 THEN Tail(ch_queue) ELSE ch_queue
           /\ rcvd' = IF r > 0 THEN Append(rcvd, r) ELSE rcvd
           /\ cev' = IF now = "-" THEN NoCEv
                     ELSE CEv("recv", 0, now, IF r > 0 THEN r ELSE 0)
           /\ rx_parked' = (now = "Pending")
           /\ srx' = IF now = "Some" THEN At("wake", set, "Some")
                     ELSE IF now = "None" /\ set THEN At("clear", TRUE, "None")
                     ELSE IF now = "-" THEN At("set", FALSE, "-")
                     ELSE Idle
    /\ rx_woken' = IF srx.pc = "idle" THEN FALSE ELSE rx_woken
    /\ UNCHANGED <<rx_waker, recv_gone, senders, sending, nsent, woken, sent,
                   buffer, tx_waker, stx>>
    /\ UNCHANGED syncFrame

\* Receiver::recv of mpsc.rs on an unbounded channel: one try_recv of the
\* loop that fills the empty internal buffer, or, when the buffer holds
\* results, no access to the channel; then the front of the buffer is read.
SyncRecvUnbounded ==
    /\ kind = "sync"
    /\ capacity = usize_MAX
    /\ ~recv_gone
    /\ srx.pc \in {"idle", "retry", "fill"}
    /\ LET fill == buffer = <<>> \/ srx.pc = "fill"
           r == try_recv(ch_queue, senders)
           b == IF fill THEN Append(buffer, r) ELSE buffer
           more == fill /\ r > 0
           x == Head(b)
           set == srx.set
           now == IF more THEN "-"
                  ELSE IF x > 0 THEN "Some"
                  ELSE IF x < 0 THEN "None"
                  ELSE IF set THEN "Pending"
                  ELSE "-"
       IN  /\ ch_queue' = IF more THEN Tail(ch_queue) ELSE ch_queue
           /\ buffer' = IF more THEN b ELSE Tail(b)
           /\ rcvd' = IF now = "Some" THEN Append(rcvd, x) ELSE rcvd
           /\ cev' = IF now = "-" THEN NoCEv
                     ELSE CEv("recv", 0, now, IF now = "Some" THEN x ELSE 0)
           /\ rx_parked' = (now = "Pending")
           /\ srx' = IF more THEN At("fill", set, "-")
                     ELSE IF now = "-" THEN At("set", FALSE, "-")
                     ELSE IF now # "Pending" /\ set THEN At("clear", TRUE, now)
                     ELSE Idle
    /\ rx_woken' = IF srx.pc = "idle" THEN FALSE ELSE rx_woken
    /\ UNCHANGED <<rx_waker, recv_gone, senders, sending, nsent, woken, sent,
                   tx_waker, stx>>
    /\ UNCHANGED syncFrame

\* Receiver::recv of mpsc.rs: store the context's waker.
SyncSetRxWaker ==
    /\ srx.pc = "set"
    /\ rx_waker' = TRUE
    /\ srx' = At("retry", TRUE, "-")
    /\ cev' = NoCEv
    /\ UNCHANGED <<ch_queue, recv_gone, senders, sending, nsent, woken, rx_woken,
                   rx_parked, sent, rcvd, buffer, tx_waker, stx>>
    /\ UNCHANGED syncFrame

\* Receiver::recv of mpsc.rs on a bounded channel, after a value was taken:
\* take the waker in the senders' shared slot and wake it.
SyncWakeTx ==
    /\ srx.pc = "wake"
    /\ tx_waker' = 0
    /\ woken' = IF tx_waker # 0 THEN woken \cup {tx_waker} ELSE woken
    /\ srx' = IF srx.set THEN At("clear", TRUE, "Some") ELSE Idle
    /\ cev' = NoCEv
    /\ UNCHANGED <<ch_queue, rx_waker, recv_gone, senders, sending, nsent,
                   rx_woken, rx_parked, sent, rcvd, buffer, stx>>
    /\ UNCHANGED syncFrame

\* Receiver::recv of mpsc.rs, ready after it set a waker: remove it.
SyncClearRxWaker ==
    /\ srx.pc = "clear"
    /\ rx_waker' = FALSE
    /\ srx' = Idle
    /\ cev' = NoCEv
    /\ UNCHANGED <<ch_queue, recv_gone, senders, sending, nsent, woken, rx_woken,
                   rx_parked, sent, rcvd, buffer, tx_waker, stx>>
    /\ UNCHANGED syncFrame

\* Drop::drop for Receiver of mpsc.rs: wake the waker in the senders' slot.
SyncDropReceiver ==
    /\ kind = "sync"
    /\ ~recv_gone
    /\ srx.pc = "idle"
    /\ tx_waker' = 0
    /\ woken' = IF tx_waker # 0 THEN woken \cup {tx_waker} ELSE woken
    /\ srx' = At("drop", FALSE, "-")
    /\ rx_parked' = FALSE
    /\ cev' = NoCEv
    /\ UNCHANGED <<ch_queue, rx_waker, recv_gone, senders, sending, nsent,
                   rx_woken, sent, rcvd, buffer, stx>>
    /\ UNCHANGED syncFrame

\* The fields of the dropped Receiver are dropped: std's receiver.
SyncDropReceiverFields ==
    /\ srx.pc = "drop"
    /\ recv_gone' = TRUE
    /\ srx' = Idle
    /\ cev' = CEv("drop", 0, "-", 0)
    /\ UNCHANGED <<ch_queue, rx_waker, senders, sending, nsent, woken, rx_woken,
                   rx_parked, sent, rcvd, buffer, tx_waker, stx>>
    /\ UNCHANGED syncFrame


\* A channel of either module and of any capacity (bounded up to MaxCap or
\* unbounded; std's sync_channel(0) is a rendezvous channel and left out),
\* used by up to MaxSenders senders, each from its own task, and by its
\* receiver. A future may be polled at any time, woken or not. The steps of
\* the cross-thread channel interleave access by access to shared state.
InitChan ==
    /\ InitCommon
    /\ AuxIdle
    /\ ntasks = 0
    /\ \/ kind = "unsync" /\ \E cap \in (0..MaxCap) \cup {usize_MAX} : ChannelNew(cap)
       \/ kind = "sync" /\ \E cap \in (1..MaxCap) \cup {usize_MAX} : ChannelNew(cap)

NextChan ==
    \/ \E s \in SenderIds : Clone(s)
    \/ \E s \in SenderIds : SendPoll(s)
    \/ \E s \in SenderIds : UnboundedSend(s)
    \/ \E s \in SenderIds : DropSender(s)
    \/ Recv
    \/ DropReceiver
    \/ \E s \in SenderIds : SyncSendTry(s)
    \/ \E s \in SenderIds : SyncSetTxWaker(s)
    \/ \E s \in SenderIds : SyncWakeRx(s)
    \/ \E s \in SenderIds : SyncClearTxWaker(s)
    \/ \E s \in SenderIds : SyncUnboundedSend(s)
    \/ \E s \in SenderIds : SyncDropSender(s)
    \/ \E s \in SenderIds : SyncDropSenderFields(s)
    \/ SyncRecvTry
    \/ SyncRecvUnbounded
    \/ SyncSetRxWaker
    \/ SyncWakeTx
    \/ SyncClearRxWaker
    \/ SyncDropReceiver
    \/ SyncDropReceiverFields

SpecChan == InitChan /\ [][NextChan]_vars

\* channel(cap) or unbounded_channel() of mpsc.rs followed by one clone of
\* the sender: senders 1 and 2 share the tx_waker and rx_waker Arcs.
ChannelCloned(cap) ==
    /\ ch_queue = <<>>
    /\ capacity = cap
    /\ tx_wakers = <<>>
    /\ rx_waker = FALSE
    /\ recv_gone = FALSE
    /\ last_id = 1
    /\ senders = {1, 2}
    /\ sending = [s \in SenderIds |-> 0]
    /\ nsent = [s \in SenderIds |-> IF s \in {1, 2} THEN 0 ELSE 0 - 1]
    /\ woken = {}
    /\ rx_woken = FALSE
    /\ rx_parked = FALSE
    /\ sent = <<>>
    /\ rcvd = <<>>
    /\ cev = NoCEv
    /\ buffer = <<>>
    /\ tx_waker = 0
    /\ stx = [s \in SenderIds |-> Idle]
    /\ srx = Idle

\* A cross-thread channel with two senders, a sender and its clone, each on
\* a thread of its own, and the receiver on a third.
InitClones ==
    /\ InitCommon
    /\ AuxIdle
    /\ ntasks = 0
    /\ kind = "sync"
    /\ \E cap \in (1..MaxCap) \cup {usize_MAX} : ChannelCloned(cap)

NextClones ==
    \/ \E s \in SenderIds : SyncSendTry(s)
    \/ \E s \in SenderIds : SyncSetTxWaker(s)
    \/ \E s \in SenderIds : SyncWakeRx(s)
    \/ \E s \in SenderIds : SyncClearTxWaker(s)
    \/ \E s \in SenderIds : SyncUnboundedSend(s)
    \/ \E s \in SenderIds : SyncDropSender(s)
    \/ \E s \in SenderIds : SyncDropSenderFields(s)
    \/ SyncRecvTry
    \/ SyncRecvUnbounded
    \/ SyncSetRxWaker
    \/ SyncWakeTx
    \/ SyncClearRxWaker
    \/ SyncDropReceiver
    \/ SyncDropReceiverFields

SpecClones == InitClones /\ [][NextClones]_vars

\* ------------------------------------------- test_channel (naratest.rs)
\* The root is task 1; ping1, ping2 and pong are spawned in that order and
\* get the ids 2, 3 and 4. ping1 owns sender 1 (tx1), ping2 sender 2 (tx2).
Ping1 == 2
Ping2 == 3
Pong == 4
TaskOfSender(s) == s + 1
SenderOfTask(t) == t - 1

\* The future of task t is being polled.
Running(t) == pc = "poll" /\ task = t

\* block_on after the poll in progress returned Pending (executor.rs:124-129).
Parks ==
    /\ LET a == after_pending(tasks, task, current_woken)
       IN  /\ tasks' = a.tasks
           /\ current_woken' = a.woken
           /\ IF a.again
              THEN UNCHANGED <<task, pc, notes, enq, pops>>
              ELSE /\ task' = 0
                   /\ pc' = "pop"
                   /\ notes' = [notes EXCEPT ![task] = 0]
                   /\ enq' = [enq EXCEPT ![task] = 0]
                   /\ pops' = [pops EXCEPT ![task] = 0]
    /\ selfNotified' = FALSE
    /\ UNCHANGED runq

\* The poll in progress goes on after invoking the wakers of the tasks ids.
Wakes(ids) ==
    /\ \E X \in {NotifiedAll(ExecX, ids)} : ApplyX(X)
    /\ UNCHANGED <<task, pc, pops>>

\* What the steps of test_channel's futures never change.
pingFrame ==
    <<current_id, main_task_id, output, bstate, pipe, done, jfills, jlast, ntasks,
      sending, nsent, woken, rx_woken, rx_parked, cev, syncVars, clock, spolls, fired,
      poolVars, wakeVars, extVars>>

\* The root's first poll up to its first await: channel(4), tx1.clone() and
\* the three task::spawn.
PingStart ==
    /\ Running(1)
    /\ tpc[1] = "start"
    /\ LET s1 == spawn(runq, next_id)
           s2 == spawn(s1.runq, s1.next_id)
           s3 == spawn(s2.runq, s2.next_id)
       IN  /\ runq' = s3.runq
           /\ next_id' = s3.next_id
           /\ handles' = handles \cup {s1.id, s2.id, s3.id}
    /\ capacity' = PingCap
    /\ last_id' = 2
    /\ senders' = {1, 2}
    /\ tpc' = [t \in TaskIds |-> IF t = 1 THEN "join"
                                 ELSE IF t = Ping1 THEN "send"
                                 ELSE IF t \in {Ping2, Pong} THEN "delay"
                                 ELSE "-"]
    /\ iter' = [iter EXCEPT ![1] = Ping1]
    /\ ev' = NoEv
    /\ UNCHANGED <<tasks, current_woken, task, pc, notes, enq, pops, selfNotified,
                   jresult, jwaker, ch_queue, tx_wakers, rx_waker, recv_gone,
                   sent, rcvd, timers, timer_next_id, slp>>
    /\ UNCHANGED pingFrame

\* The root awaits the JoinHandle of ping1, ping2 and pong in turn.
PingJoin ==
    /\ Running(1)
    /\ tpc[1] = "join"
    /\ LET h == iter[1]
           r == join_poll(jresult[h], jwaker[h], task)
       IN  /\ jresult' = [jresult EXCEPT ![h] = r.result]
           /\ jwaker' = [jwaker EXCEPT ![h] = r.waker]
           /\ ev' = Ev("join", h, r.ret, jwaker[h])
           /\ IF r.ret # 0
              THEN /\ iter' = [iter EXCEPT ![1] = h + 1]
                   /\ tpc' = [tpc EXCEPT ![1] = IF h = Pong THEN "end" ELSE "join"]
                   /\ UNCHANGED <<runq, tasks, current_woken, task, pc, notes, enq,
                                  pops, selfNotified>>
              ELSE /\ Parks
                   /\ UNCHANGED <<tpc, iter>>
    /\ UNCHANGED <<next_id, handles, ch_queue, capacity, tx_wakers, rx_waker,
                   recv_gone, last_id, senders, sent, rcvd, timers, timer_next_id, slp>>
    /\ UNCHANGED pingFrame

\* ping1 / ping2: tx.send(i).await.unwrap().
PingSend(t) ==
    /\ Running(t)
    /\ tpc[t] = "send"
    /\ LET s == SenderOfTask(t)
           v == (s - 1) * PingN + iter[t] + 1
           r == send_poll(ch_queue, capacity, recv_gone)
       IN  /\ ev' = Ev("send", t, v, 0)
           /\ IF r = "Ok"
              THEN /\ ch_queue' = push_back(ch_queue, v)
                   /\ sent' = Append(sent, v)
                   /\ rx_waker' = FALSE
                   /\ Wakes(IF rx_waker THEN <<Pong>> ELSE <<>>)
                   /\ iter' = [iter EXCEPT ![t] = @ + 1]
                   /\ tpc' = [tpc EXCEPT ![t] = "sleep"]
                   /\ UNCHANGED tx_wakers
              ELSE IF r = "Pending"
              THEN /\ tx_wakers' = IF s \in Range(tx_wakers) THEN tx_wakers
                                   ELSE Append(tx_wakers, s)
                   /\ Parks
                   /\ UNCHANGED <<ch_queue, sent, rx_waker, iter, tpc>>
              ELSE /\ tpc' = [tpc EXCEPT ![t] = "panic"]
                   /\ UNCHANGED <<runq, tasks, current_woken, task, pc, notes, enq,
                                  pops, selfNotified, ch_queue, sent, rx_waker,
                                  tx_wakers, iter>>
    /\ UNCHANGED <<next_id, handles, jresult, jwaker, capacity, recv_gone, last_id,
                   senders, rcvd, timers, timer_next_id, slp>>
    /\ UNCHANGED pingFrame

\* sleep(Duration::from_millis(..)) of ping1, ping2 and pong: the Sleep is
\* created; the await that follows is PingSleepAwait.
PingSleepNew(t) ==
    /\ Running(t)
    /\ tpc[t] \in {"delay", "sleep"}
    /\ LET d == IF tpc[t] = "sleep" THEN PingSleep
                ELSE IF t = Pong THEN PongDelay ELSE Ping2Delay
           r == sleep_until(timers, timer_next_id, clock + d)
       IN  /\ timers' = r.timers
           /\ timer_next_id' = r.next_id
           /\ slp' = [slp EXCEPT ![t] = r.key]
           /\ ev' = Ev("sleep", t, d, 0)
    /\ tpc' = [tpc EXCEPT ![t] = IF @ = "delay" THEN "delaying" ELSE "sleeping"]
    /\ UNCHANGED <<runq, tasks, current_woken, task, pc, notes, enq, pops,
                   selfNotified, next_id, handles, jresult, jwaker, ch_queue, capacity,
                   tx_wakers, rx_waker, recv_gone, last_id, senders, sent, rcvd, iter>>
    /\ UNCHANGED pingFrame

\* The await of the Sleep: ping goes on to its next send or, after its last
\* one, to its end; ping2 and pong go on after their initial sleep.
PingSleepAwait(t) ==
    /\ Running(t)
    /\ tpc[t] \in {"delaying", "sleeping"}
    /\ LET r == sleep_poll(timers, slp[t], task)
       IN  /\ timers' = r.timers
           /\ IF r.ready
              THEN /\ slp' = [slp EXCEPT ![t] = NoSleep]
                   /\ tpc' = [tpc EXCEPT ![t] =
                                IF t = Pong THEN "recv"
                                ELSE IF iter[t] = PingN THEN "drop"
                                ELSE "send"]
                   /\ ev' = Ev("slept", t, slp[t].deadline, slp[t].id)
                   /\ UNCHANGED <<runq, tasks, current_woken, task, pc, notes, enq,
                                  pops, selfNotified>>
              ELSE /\ Parks
                   /\ ev' = Ev("pending", t, 0, 0)
                   /\ UNCHANGED <<slp, tpc>>
    /\ UNCHANGED <<next_id, handles, jresult, jwaker, ch_queue, capacity, tx_wakers,
                   rx_waker, recv_gone, last_id, senders, sent, rcvd, timer_next_id,
                   iter>>
    /\ UNCHANGED pingFrame

\* pong: rx.recv().await in the head of its while let.
PingRecv ==
    /\ Running(Pong)
    /\ tpc[Pong] = "recv"
    /\ LET r == recv_poll(ch_queue, strong_count(senders, recv_gone))
           wake == r = "Some" /\ capacity # usize_MAX /\ tx_wakers # <<>>
       IN  /\ ev' = Ev("recv", Pong, IF r = "Some" THEN Head(ch_queue) ELSE 0, 0)
           /\ IF r = "Some"
              THEN /\ ch_queue' = Tail(ch_queue)
                   /\ rcvd' = Append(rcvd, Head(ch_queue))
                   /\ tx_wakers' = IF wake THEN Tail(tx_wakers) ELSE tx_wakers
                   /\ Wakes(IF wake THEN <<TaskOfSender(Head(tx_wakers))>> ELSE <<>>)
                   /\ UNCHANGED <<rx_waker, tpc>>
              ELSE IF r = "Pending"
              THEN /\ rx_waker' = TRUE
                   /\ Parks
                   /\ UNCHANGED <<ch_queue, rcvd, tx_wakers, tpc>>
              ELSE /\ tpc' = [tpc EXCEPT ![Pong] = "drop"]
                   /\ UNCHANGED <<runq, tasks, current_woken, task, pc, notes, enq,
                                  pops, selfNotified, ch_queue, rcvd, tx_wakers,
                                  rx_waker>>
    /\ UNCHANGED <<next_id, handles, jresult, jwaker, capacity, recv_gone, last_id,
                   senders, sent, timers, timer_next_id, slp, iter>>
    /\ UNCHANGED pingFrame

\* The async block of ping1 / ping2 ends: its Sender is dropped.
PingDropSender(t) ==
    /\ Running(t)
    /\ t \in {Ping1, Ping2}
    /\ tpc[t] = "drop"
    /\ LET s == SenderOfTask(t)
           last == strong_count(senders, recv_gone) = 2
       IN  /\ tx_wakers' = retain(tx_wakers, s)
           /\ rx_waker' = IF last THEN FALSE ELSE rx_waker
           /\ Wakes(IF last /\ rx_waker THEN <<Pong>> ELSE <<>>)
           /\ senders' = senders \ {s}
    /\ tpc' = [tpc EXCEPT ![t] = "end"]
    /\ ev' = Ev("drop", t, 0, 0)
    /\ UNCHANGED <<next_id, handles, jresult, jwaker, ch_queue, capacity, recv_gone,
                   last_id, sent, rcvd, timers, timer_next_id, slp, iter>>
    /\ UNCHANGED pingFrame

\* The async block of pong ends: the Receiver is dropped.
PingDropReceiver ==
    /\ Running(Pong)
    /\ tpc[Pong] = "drop"
    /\ recv_gone' = TRUE
    /\ tx_wakers' = <<>>
    /\ Wakes([i \in 1..Len(tx_wakers) |-> TaskOfSender(tx_wakers[i])])
    /\ tpc' = [tpc EXCEPT ![Pong] = "end"]
    /\ ev' = Ev("drop", Pong, 0, 0)
    /\ UNCHANGED <<next_id, handles, jresult, jwaker, ch_queue, capacity, rx_waker,
                   last_id, senders, sent, rcvd, timers, timer_next_id, slp, iter>>
    /\ UNCHANGED pingFrame

\* The future of task t returns Ready(()).
PingDone(t) == Running(t) /\ tpc[t] = "end" /\ PollReady(1)

\* Runtime::block_on(test_channel()) on a fresh runtime.
InitPing ==
    /\ InitCommon
    /\ ChanIdle
    /\ TimeIdle
    /\ tpc = [t \in TaskIds |-> IF t = 1 THEN "start" ELSE "-"]
    /\ iter = [t \in TaskIds |-> 0]
    /\ PoolNew
    /\ WakeNew
    /\ ExtIdle
    /\ ntasks = 1

\* A step of the program: of the executor, of the timer or of a future.
PingStep ==
    \/ BlockOn
    \/ Pop
    \/ TimerReact
    \/ TimerTick
    \/ PingStart
    \/ PingJoin
    \/ \E t \in {Ping1, Ping2} : PingSend(t)
    \/ \E t \in {Ping1, Ping2, Pong} : PingSleepNew(t)
    \/ \E t \in {Ping1, Ping2, Pong} : PingSleepAwait(t)
    \/ PingRecv
    \/ \E t \in {Ping1, Ping2} : PingDropSender(t)
    \/ PingDropReceiver
    \/ \E t \in 1..PingTasks : PingDone(t)

NextPing ==
    \/ PingStep
    \/ ElapseTo(PingHorizon)

\* The thread of block_on keeps running: a step of the program that can be
\* taken is taken eventually, however much time passes meanwhile.
SpecPing == InitPing /\ [][NextPing]_vars /\ WF_vars(PingStep)

\* ------------------------------------------------------ the thread pool
\* What the steps of the pool and of its workers never change.
poolFrame == <<execVars, joinVars, histVars, chanVars, timeVars, progVars, wakeVars, extVars>>

\* ThreadPool::spawn, "Launch more threads, up to MAX_THREADS": the thread
\* list th after it, w being the worker a launch starts.
pool_launch(th, w) == IF Cardinality(th) < MAX_THREADS THEN th \cup {w} ELSE th

\* ThreadPool::spawn, "Garbage collection": threads.retain(|t| !t.is_finished()).
pool_gc(th, fin) == {t \in th : t \notin fin}

\* JoinHandle::is_finished of the workers.
Finished == {w \in WorkerIds : workers[w].pc = "finished"}

\* Mutant of recv_timeout: the closure received stays in the queue.
recv_timeout_peek(q) ==
    IF q # <<>> THEN [ok |-> TRUE, work |-> Head(q), queue |-> q]
    ELSE [ok |-> FALSE, work |-> 0, queue |-> q]

\* mpsc::Receiver::recv_timeout when it returns: Ok(work) with the oldest
\* closure of a queue that is not empty, Err(Timeout) on an empty one.
recv_timeout(q) ==
    IF q # <<>> THEN [ok |-> TRUE, work |-> Head(q), queue |-> Tail(q)]
    ELSE [ok |-> FALSE, work |-> 0, queue |-> q]

\* ThreadPool::spawn(f), on the executor thread: launch, send, collect.
PoolSpawn ==
    /\ submitted < MaxJobs
    /\ LET k == submitted + 1
           th == pool_launch(pool_threads, k)
       IN  /\ workers' = IF k \in th THEN [workers EXCEPT ![k] = Worker("lock", 0, 0)]
                         ELSE workers
           /\ pool_queue' = Append(pool_queue, k)
           /\ pool_threads' = pool_gc(th, Finished)
           /\ submitted' = k
    /\ UNCHANGED <<cell, invoked, fret>>
    /\ UNCHANGED poolFrame

\* worker: rx.lock() returns the guard; the mutex has one holder at a time.
WorkerLock(w) ==
    /\ workers[w].pc = "lock"
    /\ \A o \in WorkerIds : workers[o].pc # "recv"
    /\ workers' = [workers EXCEPT ![w] = Worker("recv", 0, 0)]
    /\ UNCHANGED <<pool_threads, pool_queue, submitted, cell, invoked, fret>>
    /\ UNCHANGED poolFrame

\* worker: recv_timeout returns. Ok(work): the guard is dropped, work() is
\* next. Err: break, the thread ends (and the guard with it).
WorkerRecv(w) ==
    /\ workers[w].pc = "recv"
    /\ LET r == recv_timeout(pool_queue)
       IN  /\ pool_queue' = r.queue
           /\ workers' = [workers EXCEPT ![w] =
                             IF r.ok THEN Worker("run", r.work, 0)
                             ELSE Worker("finished", 0, 0)]
    /\ UNCHANGED <<pool_threads, submitted, cell, invoked, fret>>
    /\ UNCHANGED poolFrame

\* worker: work() calls the closure f, which returns v.
WorkerRun(w, v) ==
    /\ workers[w].pc = "run"
    /\ LET k == workers[w].work
       IN  /\ invoked' = [invoked EXCEPT ![k] = Append(@, w)]
           /\ fret' = [fret EXCEPT ![k] = v]
           /\ workers' = [workers EXCEPT ![w] = Worker("set", k, v)]
    /\ UNCHANGED <<pool_threads, pool_queue, submitted, cell>>
    /\ UNCHANGED poolFrame

\* worker: handle2.set_result(f()) stores the value in the JoinHandle (no
\* task awaits it here), and the worker loops to rx.lock().
WorkerSetResult(w) ==
    /\ workers[w].pc = "set"
    /\ LET k == workers[w].work
           r == set_result(cell[k], 0, workers[w].ret)
       IN  cell' = [cell EXCEPT ![k] = r.result]
    /\ workers' = [workers EXCEPT ![w] = Worker("lock", 0, 0)]
    /\ UNCHANGED <<pool_threads, pool_queue, submitted, invoked, fret>>
    /\ UNCHANGED poolFrame

\* A step of worker w.
WorkerStep(w) ==
    \/ WorkerLock(w)
    \/ WorkerRecv(w)
    \/ \E v \in Values : WorkerRun(w, v)
    \/ WorkerSetResult(w)

\* A fresh pool, used by up to MaxJobs calls of spawn_blocking; the workers
\* run on their own threads and wait on the queue for as long as they like
\* within their lifetime.
InitPool ==
    /\ InitCommon
    /\ ChanIdle
    /\ TimeIdle
    /\ ProgIdle
    /\ PoolNew
    /\ WakeNew
    /\ ExtIdle
    /\ ntasks = 0

NextPool ==
    \/ PoolSpawn
    \/ \E w \in WorkerIds : WorkerLock(w)
    \/ \E w \in WorkerIds : WorkerRecv(w)
    \/ \E w \in WorkerIds, v \in Values : WorkerRun(w, v)
    \/ \E w \in WorkerIds : WorkerSetResult(w)

SpecPool == InitPool /\ [][NextPool]_vars

\* The worker threads keep running: the operating system schedules every
\* thread that can take a step, and recv_timeout returns, with a closure or
\* with the timeout.
SpecPoolFair == SpecPool /\ \A w \in WorkerIds : WF_vars(WorkerStep(w))

\* ------------------------------------------------------------- the runtime
rtFrame == <<execVars, joinVars, histVars, chanVars, timeVars, progVars, poolVars,
             wakeVars, reactVars, tmoVars, ownVars>>

\* Weak::upgrade on the thread-local: Some(r) while Runtime r is alive.
upgrade(weak, live) == IF weak \in live THEN weak ELSE 0

\* Variant of Runtime::new that refuses a bound thread.
runtime_new_checked(bound) == IF bound # 0 THEN "AlreadyExists" ELSE "Ok"

\* Runtime::new: builds the reactor, the timer and the executor; Ok(Runtime).
runtime_new(bound) == "Ok"

\* EnterGuard::new(runtime r) on the thread-local w: panics when another
\* runtime is bound, binds r when none is, leaves the binding otherwise.
enter_guard_new(w, live, r) ==
    IF upgrade(w, live) # 0
    THEN [panic |-> upgrade(w, live) # r, RUNTIME |-> w]
    ELSE [panic |-> FALSE, RUNTIME |-> r]

\* Variant of the Drop of EnterGuard that unbinds with the last guard only.
enter_guard_drop_last(w, left) == IF left = 0 THEN 0 ELSE w

\* impl Drop for EnterGuard: *rt = Weak::new(); `left` is the number of
\* guards still alive, which it does not look at.
enter_guard_drop(w, left) == 0

LiveGuards == {g \in GuardIds : guards[g] # NoGuard}

RtNew ==
    /\ rt_made < MaxRts
    /\ LET res == runtime_new(upgrade(RUNTIME, rt_live))
       IN  /\ rt_ev' = REv("new", IF res = "Ok" THEN rt_made + 1 ELSE 0, res)
           /\ IF res = "Ok"
              THEN /\ rt_made' = rt_made + 1
                   /\ rt_live' = rt_live \cup {rt_made + 1}
              ELSE UNCHANGED <<rt_made, rt_live>>
    /\ UNCHANGED <<RUNTIME, guards, nguards, rtFrame>>

\* EnterGuard::new for Runtime::enter (b = FALSE) and for the `_guard` of
\* Runtime::block_on (b = TRUE). A panic unwinds: no guard is created.
Enter(r, b) ==
    /\ r \in rt_live
    /\ nguards < MaxGuards
    /\ LET e == enter_guard_new(RUNTIME, rt_live, r)
       IN  /\ RUNTIME' = e.RUNTIME
           /\ IF e.panic
              THEN /\ rt_ev' = REv("enter", r, "panic")
                   /\ UNCHANGED <<guards, nguards>>
              ELSE /\ rt_ev' = REv("enter", r, "guard")
                   /\ nguards' = nguards + 1
                   /\ guards' = [guards EXCEPT ![nguards + 1] = Guard(r, b)]
    /\ UNCHANGED <<rt_made, rt_live, rtFrame>>

RtEnter(r) == Enter(r, FALSE)
RtBlockOn(r) == Enter(r, TRUE)

\* A guard returned by enter is dropped, at any time.
GuardDrop(g) ==
    /\ guards[g] # NoGuard
    /\ ~guards[g].bo
    /\ guards' = [guards EXCEPT ![g] = NoGuard]
    /\ RUNTIME' = enter_guard_drop(RUNTIME, Cardinality(LiveGuards \ {g}))
    /\ rt_ev' = REv("drop", guards[g].rt, "-")
    /\ UNCHANGED <<rt_made, rt_live, nguards, rtFrame>>

\* Runtime::block_on returns: its `_guard` is dropped. Calls of block_on
\* nest (a poll may call block_on), so the innermost one returns first.
RtBlockOnReturn(g) ==
    /\ guards[g] # NoGuard
    /\ guards[g].bo
    /\ \A h \in LiveGuards : guards[h].bo => h <= g
    /\ guards' = [guards EXCEPT ![g] = NoGuard]
    /\ RUNTIME' = enter_guard_drop(RUNTIME, Cardinality(LiveGuards \ {g}))
    /\ rt_ev' = REv("return", guards[g].rt, "-")
    /\ UNCHANGED <<rt_made, rt_live, nguards, rtFrame>>

\* A Runtime is dropped; the guards borrow it, so none of its guards is alive.
RtDrop(r) ==
    /\ r \in rt_live
    /\ \A g \in LiveGuards : guards[g].rt # r
    /\ rt_live' = rt_live \ {r}
    /\ rt_ev' = REv("drop_runtime", r, "-")
    /\ UNCHANGED <<RUNTIME, rt_made, guards, nguards, rtFrame>>

InitRt ==
    /\ InitCommon
    /\ ChanIdle
    /\ AuxIdle
    /\ ntasks = 0

NextRt ==
    \/ RtNew
    \/ \E r \in RtIds : RtEnter(r)
    \/ \E r \in RtIds : RtBlockOn(r)
    \/ \E g \in GuardIds : GuardDrop(g)
    \/ \E g \in GuardIds : RtBlockOnReturn(g)
    \/ \E r \in RtIds : RtDrop(r)

SpecRt == InitRt /\ [][NextRt]_vars

\* ------------------------------------------------------------- the reactor
Abs(x) == IF x < 0 THEN 0 - x ELSE x
Bit(m, b) == (m \div b) % 2
OrAt(a, b, k) == IF Bit(a, k) = 1 \/ Bit(b, k) = 1 THEN k ELSE 0
AndAt(a, b, k) == IF Bit(a, k) = 1 /\ Bit(b, k) = 1 THEN k ELSE 0
BitOr(a, b) ==
    OrAt(a, b, 1) + OrAt(a, b, 2) + OrAt(a, b, 4) + OrAt(a, b, 8)
        + OrAt(a, b, 16) + OrAt(a, b, 32)
BitAnd(a, b) ==
    AndAt(a, b, 1) + AndAt(a, b, 2) + AndAt(a, b, 4) + AndAt(a, b, 8)
        + AndAt(a, b, 16) + AndAt(a, b, 32)
RemoveAt(q, n) == SubSeq(q, 1, n - 1) \o SubSeq(q, n + 1, Len(q))

\* Mutant of poll_bits: the mask of the waiter pushed last.
poll_bits_last(waiters) == IF waiters = <<>> THEN 0 ELSE Last(waiters).interest

\* FdWaiters::poll_bits: the fold of | over the waiters' interests.
RECURSIVE poll_bits(_)
poll_bits(waiters) ==
    IF waiters = <<>> THEN 0
    ELSE BitOr(poll_bits(Front(waiters)), Last(waiters).interest)

\* The indexes a scan of pollfds matches: register compares the fd field
\* itself, deregister and wake_when its absolute value.
SlotsExact(pf, fd) == {i \in 1..Len(pf) : pf[i].fd = fd}
SlotsAbs(pf, fd) == {i \in 1..Len(pf) : Abs(pf[i].fd) = fd}
First(S) == CHOOSE i \in S : \A j \in S : i <= j

\* Variant of register that also finds an idle slot of the fd.
register_abs(pf, fw, fd) ==
    IF SlotsAbs(pf, fd) # {}
    THEN LET idx == First(SlotsAbs(pf, fd))
         IN  [pollfds |-> pf,
              fd_waiters |-> [fw EXCEPT ![idx].refcount = @ + 1]]
    ELSE [pollfds |-> Append(pf, Pollfd(0 - fd, 0)),
          fd_waiters |-> Append(fw, FdWaiters(1, <<>>))]

\* Reactor::register(fd).
register(pf, fw, fd) ==
    IF SlotsExact(pf, fd) # {}
    THEN LET idx == First(SlotsExact(pf, fd))
         IN  [pollfds |-> pf,
              fd_waiters |-> [fw EXCEPT ![idx].refcount = @ + 1]]
    ELSE [pollfds |-> Append(pf, Pollfd(0 - fd, 0)),
          fd_waiters |-> Append(fw, FdWaiters(1, <<>>))]

\* Reactor::deregister(fd).
deregister(pf, fw, fd) ==
    IF SlotsAbs(pf, fd) = {} THEN [pollfds |-> pf, fd_waiters |-> fw]
    ELSE LET n == First(SlotsAbs(pf, fd))
         IN  IF fw[n].refcount = 1
             THEN [pollfds |-> RemoveAt(pf, n), fd_waiters |-> RemoveAt(fw, n)]
             ELSE [pollfds |-> pf,
                   fd_waiters |-> [fw EXCEPT ![n].refcount = @ - 1]]

\* Variant of wake_when that replaces the slot's waiter of the same
\* interest instead of adding one.
wake_when_replace(pf, fw, fd, interest, waker) ==
    IF SlotsAbs(pf, fd) = {} THEN [pollfds |-> pf, fd_waiters |-> fw]
    ELSE LET n == First(SlotsAbs(pf, fd))
             Others(x) == x.interest # interest
             ws == Append(SelectSeq(fw[n].waiters, Others),
                          FdWaiter(interest, waker))
         IN  [pollfds |-> [pf EXCEPT ![n] = Pollfd(fd, poll_bits(ws))],
              fd_waiters |-> [fw EXCEPT ![n].waiters = ws]]

\* InnerReactor::wake_when(fd, interest, waker).
wake_when(pf, fw, fd, interest, waker) ==
    IF SlotsAbs(pf, fd) = {} THEN [pollfds |-> pf, fd_waiters |-> fw]
    ELSE LET n == First(SlotsAbs(pf, fd))
             ws == Append(fw[n].waiters, FdWaiter(interest, waker))
         IN  [pollfds |-> [pf EXCEPT ![n] = Pollfd(fd, poll_bits(ws))],
              fd_waiters |-> [fw EXCEPT ![n].waiters = ws]]

\* What poll(2) can report for slot i: nothing for a negative fd; for the
\* executor's pipe, readable when ids have been written; for another fd any
\* of the requested events, or an error condition. Nothing in the program
\* writes to the reactor's own wake_tx.
Revents(i, p) ==
    IF p.fd < 0 \/ i = 1 THEN {0}
    ELSE IF p.fd = PipeFd
         THEN {IF pipe # <<>> THEN BitAnd(p.events, POLLIN) ELSE 0}
         ELSE {0, POLLERR, POLLHUP, POLLNVAL}
                  \cup {m \in {POLLIN, POLLOUT, POLLIN + POLLOUT} :
                           BitAnd(m, p.events) = m}

\* The revents poll(2) can leave in pollfds, slot by slot.
RECURSIVE PollResults(_)
PollResults(pf) ==
    IF pf = <<>> THEN {<<>>}
    ELSE {Append(r, x) : r \in PollResults(Front(pf)),
                         x \in Revents(Len(pf), Last(pf))}

\* Mutant of react_slot: only the waiters whose interest bit is reported
\* are woken, also on an error condition.
react_slot_bits(p, w, rv) ==
    LET Interested(x) == BitAnd(x.interest, rv) # 0
        Other(x) == ~Interested(x)
        left == SelectSeq(w.waiters, Other)
        woken_ws == SelectSeq(w.waiters, Interested)
    IN  [pollfd |-> IF left # <<>> THEN Pollfd(p.fd, poll_bits(left))
                    ELSE Pollfd(0 - p.fd, 0),
         waiters |-> FdWaiters(w.refcount, left),
         wakes |-> [k \in 1..Len(woken_ws) |-> woken_ws[k].waker]]

\* The body of react's loop for one fd slot with revents rv # 0: the
\* interested waiters are woken and removed, the others put back.
react_slot(p, w, rv) ==
    LET Interested(x) == BitAnd(BitOr(x.interest, INTERESTING), rv) # 0
        Other(x) == ~Interested(x)
        left == SelectSeq(w.waiters, Other)
        woken_ws == SelectSeq(w.waiters, Interested)
    IN  [pollfd |-> IF left # <<>> THEN Pollfd(p.fd, poll_bits(left))
                    ELSE Pollfd(0 - p.fd, 0),
         waiters |-> FdWaiters(w.refcount, left),
         wakes |-> [k \in 1..Len(woken_ws) |-> woken_ws[k].waker]]

\* InnerReactor::react after poll(2) returned revents rv: the slots from
\* index i on; wakes are the wakers invoked, in order.
RECURSIVE react(_, _, _, _)
react(pf, fw, rv, i) ==
    IF i > Len(pf) THEN [pollfds |-> pf, fd_waiters |-> fw, wakes |-> <<>>]
    ELSE IF rv[i] = 0 \/ i = 1 THEN react(pf, fw, rv, i + 1)
         ELSE LET s == react_slot(pf[i], fw[i], rv[i])
                  r == react([pf EXCEPT ![i] = s.pollfd],
                             [fw EXCEPT ![i] = s.waiters], rv, i + 1)
              IN  [pollfds |-> r.pollfds, fd_waiters |-> r.fd_waiters,
                   wakes |-> s.wakes \o r.wakes]

\* The ids queue is called with when the wakers ws are invoked in order:
\* a TaskWaker queues its id, ExecutorWaker the ids it reads from the pipe.
RECURSIVE WakeIds(_, _)
WakeIds(ws, pp) ==
    IF ws = <<>> THEN <<>>
    ELSE IF Head(ws) = ExecutorWaker THEN pp \o WakeIds(Tail(ws), <<>>)
         ELSE <<Head(ws)>> \o WakeIds(Tail(ws), pp)

reactFrame == <<execVars, joinVars, histVars, chanVars, timeVars, progVars,
                poolVars, wakeVars, rtVars, tmoVars>>

\* Registrations alive, of all fds in F.
RECURSIVE LiveRegs(_)
LiveRegs(F) ==
    IF F = {} THEN 0
    ELSE LET fd == CHOOSE x \in F : TRUE IN regs[fd] + LiveRegs(F \ {fd})

\* Registration::new(fd), in runtime context.
RegNew(fd) ==
    /\ pc \in {"idle", "returned", "poll"}
    /\ LiveRegs(Fds) < MaxRegs
    /\ LET r == register(pollfds, fd_waiters, fd)
       IN  /\ pollfds' = r.pollfds
           /\ fd_waiters' = r.fd_waiters
    /\ regs' = [regs EXCEPT ![fd] = @ + 1]
    /\ rc_ev' = RcEv("register", fd, regs[fd] + 1)
    /\ UNCHANGED reactFrame

\* impl Drop for Registration: a Registration of fd is dropped.
RegDrop(fd) ==
    /\ pc \in {"idle", "returned", "poll"}
    /\ regs[fd] > 0
    /\ LET r == deregister(pollfds, fd_waiters, fd)
       IN  /\ pollfds' = r.pollfds
           /\ fd_waiters' = r.fd_waiters
    /\ regs' = [regs EXCEPT ![fd] = @ - 1]
    /\ rc_ev' = RcEv("deregister", fd, regs[fd] - 1)
    /\ UNCHANGED reactFrame

\* The future being polled calls wake_when on a Registration of fd with its
\* waker (poll_read or poll_write found the fd not ready).
WakeWhen(fd, interest) ==
    /\ pc = "poll"
    /\ regs[fd] > 0
    /\ \A i \in SlotsAbs(pollfds, fd) : Len(fd_waiters[i].waiters) < MaxWaiters
    /\ LET r == wake_when(pollfds, fd_waiters, fd, interest, task)
       IN  /\ pollfds' = r.pollfds
           /\ fd_waiters' = r.fd_waiters
    /\ rc_ev' = RcEv("wake_when", fd, interest)
    /\ UNCHANGED <<regs, reactFrame>>

\* The slot of the executor's wake pipe holds a waiter.
PipeArmed(fw, pf) ==
    \E i \in SlotsAbs(pf, PipeFd) : fw[i].waiters # <<>>

\* block_on, the run queue drained (executor.rs:135-137): the ExecutorWaker
\* is put on the slot of the wake pipe if its waiter was consumed.
ReactorArm ==
    /\ pc = "react"
    /\ LET r == IF was_woken(PipeArmed(fd_waiters, pollfds))
                THEN wake_when(pollfds, fd_waiters, PipeFd, POLLIN, ExecutorWaker)
                ELSE [pollfds |-> pollfds, fd_waiters |-> fd_waiters]
       IN  /\ pollfds' = r.pollfds
           /\ fd_waiters' = r.fd_waiters
           /\ wake_waiter' = PipeArmed(r.fd_waiters, r.pollfds)
    /\ pc' = "wait"
    /\ rc_ev' = RcEv("arm", PipeFd, 0)
    /\ ev' = NoEv
    /\ UNCHANGED <<runq, tasks, current_id, current_woken, next_id, task,
                   main_task_id, output, joinVars,
                   done, notes, enq, pops, selfNotified, jfills, jlast, ntasks,
                   chanVars, timeVars, progVars, poolVars, rtVars, regs, tmoVars>>

\* Reactor::react: poll(2) returns with revents rv (all zero: it failed or
\* timed out), the waiters of the slots with events are woken on the
\* executor thread.
ReactorReact ==
    /\ pc = "wait"
    /\ \E rv \in PollResults(pollfds) :
         \E r \in {react(pollfds, fd_waiters, rv, 1)} :
           /\ pollfds' = r.pollfds
           /\ fd_waiters' = r.fd_waiters
           /\ wake_waiter' = PipeArmed(r.fd_waiters, r.pollfds)
           /\ pipe' = IF ExecutorWaker \in Range(r.wakes) THEN <<>> ELSE pipe
           /\ \E X \in {NotifiedAll(ExecX, WakeIds(r.wakes, pipe))} : ApplyX(X)
           /\ rc_ev' = RcEv("react", 0, Len(r.wakes))
    /\ pc' = "tick"
    /\ ev' = NoEv
    /\ UNCHANGED <<current_id, next_id, task, main_task_id, output,
                   jresult, jwaker, handles, bstate,
                   done, pops, jfills, jlast, ntasks,
                   chanVars, timeVars, progVars, poolVars, rtVars, regs, tmoVars>>

\* block_on driving a root future that does I/O by itself: it creates and
\* drops Registrations and asks to be woken; other threads write its id to
\* the wake pipe.
InitReact == InitCommon /\ ChanIdle /\ AuxIdle /\ ntasks = 1

NextReact ==
    \/ BlockOn
    \/ Pop
    \/ PollPending
    \/ \E v \in Values : (task = main_task_id \/ v = 1) /\ PollReady(v)
    \/ \E id \in 1..ntasks : OffThreadWake(id)
    \/ \E fd \in Fds : RegNew(fd) /\ UNCHANGED ownVars
    \/ \E fd \in Fds : RegDrop(fd) /\ UNCHANGED ownVars
    \/ \E fd \in Fds : \E i \in {POLLIN, POLLOUT} :
           WakeWhen(fd, i) /\ UNCHANGED ownVars
    \/ ReactorArm /\ UNCHANGED ownVars
    \/ ReactorReact /\ UNCHANGED ownVars
    \/ TickReturn

SpecReact == InitReact /\ [][NextReact]_vars

\* ----------------------------------- the reactor, Registration by Registration
\* The same steps with the Registration objects told apart: g is the object
\* created, dropped or used, and via records for every waiter the object it
\* was registered through. The reactor itself keeps no such record.
RegIds == 1..MaxRegs
LiveRegIds == {g \in RegIds : reg_fd[g] # 0}

\* Registration::new(fd) returns object g.
RegNewObj(fd, g) ==
    /\ g \notin LiveRegIds
    /\ \A h \in RegIds \ LiveRegIds : g <= h
    /\ RegNew(fd)
    /\ reg_fd' = [reg_fd EXCEPT ![g] = fd]
    /\ via' = IF Len(pollfds') > Len(pollfds) THEN Append(via, <<>>) ELSE via

\* Registration g is dropped.
RegDropObj(g) ==
    /\ g \in LiveRegIds
    /\ RegDrop(reg_fd[g])
    /\ reg_fd' = [reg_fd EXCEPT ![g] = 0]
    /\ via' = IF Len(pollfds') < Len(pollfds)
              THEN RemoveAt(via, First(SlotsAbs(pollfds, reg_fd[g])))
              ELSE via

\* g.wake_when(interest, cx.waker()) in the poll in progress.
WakeWhenObj(g, interest) ==
    /\ g \in LiveRegIds
    /\ WakeWhen(reg_fd[g], interest)
    /\ via' = [via EXCEPT ![First(SlotsAbs(pollfds, reg_fd[g]))] = Append(@, g)]
    /\ UNCHANGED reg_fd

\* The entries of v whose waiter (in ws, at the same index) react left in
\* the list: the waiters of one interest are woken together.
RECURSIVE ViaLeft(_, _, _)
ViaLeft(v, ws, left) ==
    IF v = <<>> THEN <<>>
    ELSE LET rest == ViaLeft(Tail(v), Tail(ws), left)
         IN  IF \E k \in 1..Len(left) : left[k].interest = Head(ws).interest
             THEN <<Head(v)>> \o rest ELSE rest

\* block_on arms the wake pipe (the executor's Registration counts as 0).
ReactorArmObj ==
    /\ ReactorArm
    /\ via' = [i \in 1..Len(via) |->
                 IF Len(fd_waiters'[i].waiters) > Len(fd_waiters[i].waiters)
                 THEN Append(via[i], 0) ELSE via[i]]
    /\ UNCHANGED reg_fd

\* Reactor::react.
ReactorReactObj ==
    /\ ReactorReact
    /\ via' = [i \in 1..Len(via) |->
                 ViaLeft(via[i], fd_waiters[i].waiters, fd_waiters'[i].waiters)]
    /\ UNCHANGED reg_fd

InitOwn == InitReact

NextOwn ==
    \/ BlockOn
    \/ Pop
    \/ PollPending
    \/ \E v \in Values : (task = main_task_id \/ v = 1) /\ PollReady(v)
    \/ \E id \in 1..ntasks : OffThreadWake(id)
    \/ \E fd \in Fds : \E g \in RegIds : RegNewObj(fd, g)
    \/ \E g \in RegIds : RegDropObj(g)
    \/ \E g \in RegIds : \E i \in {POLLIN, POLLOUT} : WakeWhenObj(g, i)
    \/ ReactorArmObj
    \/ ReactorReactObj
    \/ TickReturn

SpecOwn == InitOwn /\ [][NextOwn]_vars

\* ------------------------------------------------- the timeout of react
\* A u128 of milliseconds is kept as three digits in base 2^16 (top holds
\* what is above 32 bits), so that the 32-bit cast is exact.
Half == 2 ^ 16
INT_MAX == 2147483647

\* Duration::as_millis: secs * 1000 + nanos / 1_000_000, whole milliseconds.
as_millis(d) ==
    LET lo_raw == (d.secs % Half) * 1000 + d.nanos \div 1000000
        hi_raw == (d.secs \div Half) * 1000 + lo_raw \div Half
    IN  [top |-> hi_raw \div Half, hi |-> hi_raw % Half, lo |-> lo_raw % Half]

\* `m as i32` of a u128: the low 32 bits, read as two's complement.
as_i32(m) ==
    IF m.hi >= Half \div 2 THEN (m.hi - Half) * Half + m.lo
    ELSE m.hi * Half + m.lo

\* m.clamp(0, c_int::MAX as u128) as c_int.
clamp_c_int(m) ==
    IF m.top > 0 \/ m.hi >= Half \div 2 THEN INT_MAX ELSE as_i32(m)

\* Variant of react_timeout that clamps before the cast.
react_timeout_clamp(t) ==
    IF t = None THEN 0 - 1 ELSE clamp_c_int(as_millis(t))

\* InnerReactor::react, line 178: timeout.map(|t| t.as_millis() as i32)
\* .unwrap_or(-1), the value it passes to syscall::poll.
react_timeout(t) ==
    IF t = None THEN 0 - 1 ELSE as_i32(as_millis(t))

\* syscall::poll, line 25: the c_int it makes of an Option<Duration>.
poll_timeout(t) ==
    IF t = None THEN 0 - 1 ELSE clamp_c_int(as_millis(t))

\* The timeouts react is called with: None and durations around the
\* values where the milliseconds leave 31 and 32 bits.
TmoSecs == {0, 1, 2147482, 2147483, 2147484, 4294967, 4294968}
TmoNanos == {0, 999999, 1000000, 295000000, 296000000, 647000000,
             648000000, 999999999}
TmoArgs == {None} \cup {Duration(sc, n) : sc \in TmoSecs, n \in TmoNanos}

tmoFrame == <<execVars, joinVars, histVars, chanVars, timeVars, progVars,
              poolVars, wakeVars, rtVars, reactVars, ownVars>>

\* block_on, executor.rs:140-141: react is called with the timeout t.
ReactCall(t) ==
    /\ tmo.called
    /\ tmo' = Tmo(t, FALSE, 0, 0)
    /\ UNCHANGED tmoFrame

\* react, reactor.rs:178-179: the timeout is converted and handed to poll.
ReactTimeout ==
    /\ ~tmo.called
    /\ tmo' = Tmo(tmo.arg, TRUE, react_timeout(tmo.arg), poll_timeout(tmo.arg))
    /\ UNCHANGED tmoFrame

InitTmo ==
    /\ InitCommon /\ ChanIdle
    /\ TimeIdle /\ ProgIdle /\ PoolNew /\ WakeNew /\ RtNone /\ ReactNew
    /\ OwnIdle
    /\ ntasks = 1
    /\ \E t \in TmoArgs : tmo = Tmo(t, FALSE, 0, 0)

NextTmo ==
    \/ \E t \in TmoArgs : ReactCall(t)
    \/ ReactTimeout

SpecTmo == InitTmo /\ [][NextTmo]_vars

\* ------------------------------------------------- claims on the scheduler
InRunq(id) == Count(runq, id) > 0
Places(id) ==
    (IF InRunq(id) THEN 1 ELSE 0) + (IF id \in tasks THEN 1 ELSE 0)
        + (IF task = id THEN 1 ELSE 0)
\* Spawned and not yet completed.
Live(id) == id < next_id /\ id \notin done

\* C1: every task id is in at most one of run queue, parked table, being
\* polled; a task that has not completed is in exactly one of them; no id
\* occurs twice in the run queue.
C1_OnePlace ==
    \A id \in TaskIds :
        /\ Places(id) <= 1
        /\ Count(runq, id) <= 1
        /\ Live(id) => Places(id) = 1

\* C1 witness: after notifications, one task is parked, one is on the run
\* queue after having been parked and notified, and a third is being polled.
C1_Witness ==
    /\ pc = "poll"
    /\ task # 0
    /\ \E a \in tasks : \E b \in Range(runq) : a # b /\ notes[b] >= 1

\* C2: ready tasks are polled in the order of their arrival on the run queue:
\* the driver pops the task that has been on the run queue longest.
C2_Fifo ==
    [][(pc = "pop" /\ pc' = "poll") => task' = Head(runq)]_vars

\* C3: for a parked task, one or more queue(id) before its next poll put it
\* on the run queue exactly once and lead to one pop by the driver; the first
\* moves it from the parked table to the back of the run queue, every
\* further one changes nothing.
C3_Epoch ==
    \A id \in TaskIds :
        /\ enq[id] <= 1
        /\ pops[id] <= enq[id]
        /\ notes[id] = 0 => (id \in tasks /\ enq[id] = 0)
        /\ notes[id] >= 1 => (enq[id] = 1 /\ Count(runq, id) = 1 /\ id \notin tasks)

C3_QueueStep(id) ==
    /\ notes[id] = 0 => (runq' = Append(runq, id) /\ tasks' = tasks \ {id})
    /\ notes[id] >= 1 => UNCHANGED <<runq, tasks, current_id, current_woken>>

\* A step Notify(id) on a task parked since its last poll: the first of the
\* epoch or a further one (what Notify leaves unchanged and what it records
\* is stated first, which keeps the evaluation cheap).
C3_Notification(id) ==
    /\ pc' = pc
    /\ pipe' = pipe
    /\ \/ notes[id] = 0 /\ notes'[id] = 1
       \/ notes[id] = 1 /\ ev'.op = "again" /\ ev'.id = id
    /\ Notify(id)

C3_OncePerEpoch ==
    /\ []C3_Epoch
    /\ [][\A id \in TaskIds : C3_Notification(id) => C3_QueueStep(id)]_vars

\* C3 witness: a parked task was notified twice and is on the run queue once.
C3_Witness ==
    /\ ev.op = "again"
    /\ notes[ev.id] = 1
    /\ enq[ev.id] = 1
    /\ Count(runq, ev.id) = 1

\* C4: a task that notified its own id during its poll and returns Pending
\* is not parked: the driver polls it again at once, before any pop, react
\* or tick.
C4_SelfWake ==
    [][(ev'.op = "pending" /\ selfNotified)
        => (/\ pc' = "poll"
            /\ task' = task
            /\ current_id' = task
            /\ task \notin tasks'
            /\ runq' = runq)]_vars

\* C4 witness: a task is polled again right after its Pending while another
\* task waits on the run queue.
C4_Witness ==
    pc = "poll" /\ ev.op = "pending" /\ ev.id = task /\ runq # <<>>

\* C5: block_on returns the root's output at the step in which a poll of
\* the root returns Ready, whatever is left on the run queue and in the
\* parked table; nothing is polled after that until a new block_on.
C5_RootStep ==
    (ev'.op = "ready" /\ ev'.id = main_task_id)
        => (/\ pc' = "returned"
            /\ output' = ev'.v
            /\ task' = 0
            /\ runq' = runq
            /\ tasks' = tasks)

C5_Returned ==
    pc = "returned"
        => (pc' = "returned" \/ (pc' = "pop" /\ main_task_id' # main_task_id))

C5_RootReady ==
    /\ [][C5_RootStep /\ C5_Returned]_vars
    /\ [](main_task_id \in done => (pc = "returned" /\ output # 0 /\ task = 0))

\* C5 witness: block_on has returned while a spawned task is on the run
\* queue and another one is parked.
C5_Witness ==
    pc = "returned" /\ output = 2 /\ runq # <<>> /\ tasks # {}

\* ------------------------------------------------ claims on the JoinHandle
\* The effect of invoking the waker of task w on the executor thread.
WokenOnThread(w) ==
    /\ w = current_id => current_woken'
    /\ (w # current_id /\ w \in tasks)
          => (runq' = Append(runq, w) /\ tasks' = tasks \ {w})
    /\ (w # current_id /\ w \notin tasks) => UNCHANGED <<runq, tasks>>

\* set_result by the trampoline of spawned task h, inside its last poll.
C6_TaskStep ==
    (ev'.op = "ready" /\ ev'.id # main_task_id)
        => LET h == ev'.id
           IN  /\ jresult'[h] = ev'.v
               /\ jwaker'[h] = 0
               /\ jwaker[h] # 0 => WokenOnThread(jwaker[h])
               /\ jwaker[h] = 0 => UNCHANGED <<runq, tasks, current_woken>>

\* set_result by a pool worker for the handle h of a blocking closure: the
\* waker, run on the worker thread, writes its task id to the wake pipe.
C6_ClosureStep ==
    ev'.op = "set_result"
        => LET h == ev'.id
           IN  /\ jresult'[h] = ev'.v
               /\ jwaker'[h] = 0
               /\ pipe' = IF jwaker[h] # 0 THEN Append(pipe, jwaker[h]) ELSE pipe

\* C6: the completion cell of every JoinHandle goes from empty to filled at
\* most once, and the set_result step that fills it takes the stored awaiter
\* waker, if any, and invokes it.
C6_SetOnce ==
    /\ [](\A h \in Handles : jfills[h] <= 1)
    /\ [][C6_TaskStep /\ C6_ClosureStep]_vars

\* C6 witness: both kinds of handle were filled, and the closure's set_result
\* invoked a stored waker (its id is in the wake pipe).
C6_Witness ==
    /\ ev.op = "set_result"
    /\ pipe # <<>>
    /\ \E t \in TaskIds : t \in handles /\ jfills[t] = 1

\* A poll of JoinHandle h: Ready(Ok(v)) iff the cell holds v (ev.v = 0
\* stands for Pending), and a Pending poll stores the polling task's waker.
C7_PollStep ==
    ev'.op = "join"
        => LET h == ev'.id
           IN  /\ ev'.v = jresult[h]
               /\ jresult[h] = 0 => jwaker'[h] = task
               /\ jresult'[h] = 0

\* set_result invokes the waker of the latest Pending poll, if any.
C7_WakeStep ==
    /\ (ev'.op = "set_result" /\ jlast[ev'.id] # 0)
          => pipe' = Append(pipe, jlast[ev'.id])
    /\ (ev'.op = "ready" /\ ev'.id # main_task_id /\ jlast[ev'.id] # 0)
          => WokenOnThread(jlast[ev'.id])

\* C7: polling a JoinHandle returns Ready(Ok(v)) iff the cell holds v, and
\* otherwise stores the context's waker and returns Pending; only the waker
\* of the most recent Pending poll is stored, and set_result invokes that one.
C7_JoinPoll ==
    /\ [](\A h \in Handles : jwaker[h] = jlast[h])
    /\ [][C7_PollStep /\ C7_WakeStep]_vars

\* C7 witness: a handle that held the waker of one task was polled by
\* another task, returned Pending and now holds the latter's waker.
C7_Witness ==
    /\ ev.op = "join"
    /\ ev.v = 0
    /\ ev.old # 0
    /\ ev.old # task
    /\ jwaker[ev.id] = task

\* C7 witness of the Ready case: the poll returned the value of the cell.
C7_WitnessReady ==
    ev.op = "join" /\ ev.v = 2

\* -------------------------------------------------- claims on the channel
\* The values in the channel, oldest first: those the receiver of mpsc.rs
\* moved to its internal buffer, then those in the queue.
Queued == SelectSeq(buffer, LAMBDA x : x > 0) \o ch_queue

\* A poll of recv that resolves takes the oldest value when there is one.
C8_RecvStep ==
    (cev'.op = "recv" /\ Queued # <<>>)
        => /\ cev'.res = "Some"
           /\ cev'.v = Head(Queued)
           /\ rcvd' = Append(rcvd, Head(Queued))
           /\ Queued' = Tail(Queued)

\* The values received so far, followed by the values in the channel, are
\* the values whose send resolved Ok, in the order they were pushed.
C8_NoLossNoDup == rcvd \o Queued = sent

\* Values of the same sender are received in the order it sent them (which
\* also excludes a duplicate).
C8_SenderOrder ==
    \A i, j \in 1..Len(rcvd) :
        (i < j /\ SenderOf(rcvd[i]) = SenderOf(rcvd[j])) => rcvd[i] < rcvd[j]

\* C8: over any interleaving of sends by several senders and receives, every
\* value whose send resolved Ok is received exactly once while the receiver
\* keeps receiving, and the values of one sender arrive in the order sent.
C8_RoundTrip ==
    /\ [](C8_NoLossNoDup /\ C8_SenderOrder)
    /\ [][C8_RecvStep]_vars

\* C8 witness: the receiver got two values of one sender and, between them
\* or around them, a value of another sender.
C8_Witness ==
    /\ cev.op = "recv"
    /\ cev.res = "Some"
    /\ Len(rcvd) >= 3
    /\ \E i, j \in 1..Len(rcvd) : SenderOf(rcvd[i]) # SenderOf(rcvd[j])
    /\ \E i, j \in 1..Len(rcvd) : i # j /\ SenderOf(rcvd[i]) = SenderOf(rcvd[j])

\* A poll of recv returns None exactly when nothing is queued and no sender
\* is alive at that poll.
C9_RecvStep ==
    cev'.op = "recv"
        => (cev'.res = "None" <=> (Queued = <<>> /\ senders = {}))

\* In the single-thread channel, a receiver whose latest poll returned
\* Pending has been woken once the queue is empty and the last sender gone.
C9_NotLeftPending ==
    (kind = "unsync" /\ rx_parked /\ ch_queue = <<>> /\ senders = {}) => rx_woken

Parked == {s \in senders : sending[s] # 0 /\ s \notin woken}

\* A poll of send on a bounded channel with a live receiver is Pending
\* exactly when the queue is full.
C10_SendStep ==
    (cev'.op = "send" /\ kind = "unsync" /\ capacity # usize_MAX /\ ~recv_gone)
        => (cev'.res = "Pending" <=> Len(ch_queue) = capacity)

\* A successful receive on a bounded channel with parked senders wakes one
\* of them, the oldest entry of the waker list, and nobody else.
C10_RecvStep ==
    (cev'.op = "recv" /\ cev'.res = "Some" /\ kind = "unsync"
                      /\ capacity # usize_MAX /\ Parked # {})
        => /\ tx_wakers # <<>>
           /\ Head(tx_wakers) \in Parked
           /\ woken' = woken \cup {Head(tx_wakers)}

\* C10: in a bounded channel with a live receiver, a poll of send returns
\* Pending iff the queue length equals the capacity (so the length never
\* exceeds the capacity), and each successful receive wakes exactly one
\* parked sender, the oldest entry of the sender waker list.
C10_Backpressure ==
    /\ []((kind = "unsync" /\ capacity # usize_MAX) => Len(ch_queue) <= capacity)
    /\ [][C10_SendStep /\ C10_RecvStep]_vars

\* A poll of send after the receiver was dropped, the first of a new send or
\* one of a send in flight, resolves to Err with the value given to send and
\* pushes nothing.
C11_SendStep ==
    (cev'.op = "send" /\ kind = "unsync" /\ recv_gone)
        => LET s == cev'.id
               v == IF sending[s] # 0 THEN sending[s] ELSE Val(s, nsent[s] + 1)
           IN  /\ cev'.res = "Err"
               /\ cev'.v = v
               /\ sending'[s] = 0
               /\ ch_queue' = ch_queue
               /\ sent' = sent

\* The drop of the receiver invokes the waker of every parked sender.
C11_DropStep ==
    (cev'.op = "drop" /\ cev'.id = 0 /\ kind = "unsync")
        => /\ recv_gone'
           /\ Parked \subseteq woken'
           /\ tx_wakers' = <<>>

\* C11: once the receiver of the single-thread channel is dropped, every
\* send (bounded or unbounded) resolves to Err carrying its value and leaves
\* the queue unchanged; the senders parked at the drop are all woken, and
\* none stays parked afterwards.
C11_RecvGone ==
    /\ [][C11_SendStep /\ C11_DropStep]_vars
    /\ []((kind = "unsync" /\ recv_gone) => Parked = {})

\* C11 witness: no value was ever received, so the two senders with a send
\* in flight were woken by the drop of the receiver; one of them has been
\* polled and got Err, the queue still holds the value sent before.
C11_Witness ==
    /\ kind = "unsync"
    /\ recv_gone
    /\ cev.op = "send"
    /\ cev.res = "Err"
    /\ cev.v = Val(1, 2)
    /\ rcvd = <<>>
    /\ ch_queue = <<Val(1, 1)>>
    /\ 2 \in woken
    /\ sending[2] # 0

\* The drop of a sender while the receiver is parked on an empty queue and
\* not yet woken: the last sender's drop takes the receiver's waker and
\* invokes it, the drop of any other sender leaves it stored.
C12_DropStep ==
    (cev'.op = "drop" /\ cev'.id # 0 /\ kind = "unsync"
                      /\ rx_parked /\ ~rx_woken /\ ch_queue = <<>>)
        => /\ rx_waker
           /\ IF senders = {cev'.id}
              THEN rx_woken' /\ ~rx_waker'
              ELSE ~rx_woken' /\ rx_waker'

\* The next poll of the parked receiver on the empty queue: None when every
\* sender is gone, Pending again while one is alive.
C12_RecvStep ==
    (cev'.op = "recv" /\ kind = "unsync" /\ rx_parked /\ ch_queue = <<>>)
        => IF senders = {}
           THEN cev'.res = "None" /\ ~rx_parked'
           ELSE cev'.res = "Pending" /\ rx_parked' /\ rx_waker'

\* C12: when the senders are dropped while the receiver is parked in recv
\* on an empty queue, the drop of the last one wakes the receiver and its
\* recv resolves to None; the drop of a sender that is not the last neither
\* wakes it nor makes recv resolve to None.
C12_LastSenderDrop == [][C12_DropStep /\ C12_RecvStep]_vars

\* C12 witness: nothing was ever sent, the receiver parked while two senders
\* were alive, both were dropped and the drop of the second woke it.
C12_Witness ==
    /\ kind = "unsync"
    /\ cev.op = "drop"
    /\ cev.id # 0
    /\ nsent[2] >= 0
    /\ senders = {}
    /\ sent = <<>>
    /\ rx_parked
    /\ rx_woken
    /\ ~rx_waker

\* C12 witness of the poll: the receiver, woken by that drop, got None.
C12_WitnessNone ==
    /\ kind = "unsync"
    /\ cev.op = "recv"
    /\ cev.res = "None"
    /\ nsent[2] >= 0
    /\ sent = <<>>

\* The senders of the cross-thread channel parked in send: the latest poll
\* returned Pending and the waker it stored was not invoked since.
SyncParked ==
    {s \in senders : stx[s].pc = "idle" /\ sending[s] # 0 /\ s \notin woken}

\* Drop::drop of the Receiver of mpsc.rs runs: every parked sender is woken.
C13_ReceiverDropStep ==
    (kind = "sync" /\ srx.pc # "drop" /\ srx'.pc = "drop")
        => SyncParked \subseteq woken'

\* Drop::drop of the last sender of mpsc.rs runs (every other sender is
\* gone or in its own drop) while the receiver is parked: it is woken.
C13_SenderDropStep ==
    \A s \in SenderIds :
        (/\ kind = "sync"
         /\ stx[s].pc # "drop" /\ stx'[s].pc = "drop"
         /\ \A o \in senders \ {s} : stx[o].pc = "drop"
         /\ srx.pc = "idle" /\ rx_parked /\ ~rx_woken)
            => rx_woken'

\* C13: in the cross-thread channel the drop of the receiver wakes every
\* sender parked in send at that moment, also when several clones are
\* parked, and the drop of a sender wakes a parked receiver.
C13_DropWakes == [][C13_ReceiverDropStep /\ C13_SenderDropStep]_vars

\* The two halves of C13 on their own.
C13_ReceiverDrop == [][C13_ReceiverDropStep]_vars
C13_SenderDrop == [][C13_SenderDropStep]_vars

\* ---------------------------------------------------- claims on the timer
\* The Sleep of the task being polled resolves: no other task awaits a
\* Sleep with an earlier deadline (a task that is not being polled and
\* holds a Sleep has returned Pending from its poll).
C15_ResolveStep ==
    ev'.op = "slept"
        => \A a \in TaskIds \ {task} :
               slp[a] = NoSleep \/ ~(slp[a].deadline < slp[task].deadline)

\* C15: with tasks woken by the timer only, when task A awaits a Sleep with
\* deadline t_A and task B one with deadline t_B > t_A, A's Sleep resolves
\* no later than B's, also when one tick finds both deadlines elapsed.
C15_SleepOrder == [][C15_ResolveStep]_vars

\* sleep(d) puts the entry of the new Sleep in the timer map, with no waker.
C16_NewStep ==
    ev'.op = "sleep" => Entry(slp'[task], 0) \in timers'

\* A poll of a Sleep returns Pending, with a waker stored in its entry, when
\* the entry is in the map, and Ready when it is not; the first poll of a
\* Sleep never returns Ready.
C16_PollStep ==
    ev'.op \in {"slept", "pending"}
        => IF HasKey(timers, slp[task])
           THEN /\ ev'.op = "pending"
                /\ \E e \in timers' : KeyOf(e) = slp[task] /\ e.waker # 0
           ELSE /\ ev'.op = "slept"
                /\ spolls[task] >= 1

\* With an entry whose deadline has been reached, react gets a zero
\* timeout and does not wait.
C16_ReactStep ==
    (pc = "react" /\ pc' = "tick" /\ \E e \in timers : e.deadline <= clock)
        => (next_deadline(timers, clock) = 0 /\ clock' = clock)

\* tick removes every entry whose deadline has been reached and puts the
\* task of its waker on the run queue.
C16_TickStep ==
    ev'.op = "tick"
        => \A e \in timers :
               e.deadline <= clock
                   => /\ ~HasKey(timers', KeyOf(e))
                      /\ e.waker # 0 => Count(runq', e.waker) = 1

\* C16: a zero-duration sleep yields: its first poll returns Pending, its
\* entry being in the timer map; the driver then calls react with a zero
\* timeout and tick, which removes the entry and wakes the task; the first
\* poll after that tick returns Ready.
C16_SleepZero ==
    [][C16_NewStep /\ C16_PollStep /\ C16_ReactStep /\ C16_TickStep]_vars

\* C16 witness: a Sleep with deadline 0 resolved at instant 0, after a poll
\* that returned Pending and a tick.
C16_Witness ==
    /\ ev.op = "slept"
    /\ ev.v = 0
    /\ clock = 0
    /\ spolls[ev.id] = 2

\* The drop of a Sleep leaves no entry for it in the timer map.
C17_DropStep ==
    ev'.op = "sleep_drop" => ~HasKey(timers', slp[task])

\* Every entry of the timer map is the entry of a Sleep some task holds.
C17_NoLingering ==
    \A e \in timers : \E t \in TaskIds : slp[t] = KeyOf(e)

\* C17: dropping a Sleep whose deadline has not fired removes its entry
\* from the timer map, so that next_deadline does not report its deadline
\* and tick does not invoke its waker.
C17_DropRemoves == [][C17_DropStep]_vars /\ []C17_NoLingering

\* C14: test_channel runs to completion. Whenever block_on has returned,
\* the receiver has received exactly the values 1..20, each once, both
\* senders have completed their ten sends, and ping1, ping2, pong and the
\* root have all terminated; and block_on does return in every run in which
\* the executor thread keeps running.
C14_Complete ==
    pc = "returned" =>
        /\ Len(rcvd) = 2 * PingN
        /\ Range(rcvd) = 1..(2 * PingN)
        /\ Len(sent) = 2 * PingN
        /\ iter[Ping1] = PingN /\ iter[Ping2] = PingN
        /\ done = 1..PingTasks
C14_PingPong == []C14_Complete /\ <>(pc = "returned")

C14_Witness ==
    /\ pc = "returned"
    /\ Len(rcvd) = 2 * PingN
    /\ Range(rcvd) = 1..(2 * PingN)
    /\ recv_gone /\ senders = {}
    /\ done = 1..PingTasks

\* C18: every closure handed to spawn_blocking is invoked at most once, by
\* one worker, however the workers interleave at the lock and the queue; a
\* JoinHandle that holds a result holds the value the one invocation of its
\* closure returned, and keeps it.
C18_Invoked ==
    \A k \in Jobs :
        /\ Len(invoked[k]) <= 1
        /\ invoked[k] # <<>> => k <= submitted
        /\ cell[k] # 0 => Len(invoked[k]) = 1 /\ cell[k] = fret[k]
C18_CellStep == \A k \in Jobs : cell[k] # 0 => cell'[k] = cell[k]
C18_InvokedOnce == []C18_Invoked /\ [][C18_CellStep]_vars

\* Two workers have competed for two closures: each closure was invoked by
\* the worker launched with the other one, and both handles are resolved.
C18_Witness ==
    /\ invoked[1] = <<2>>
    /\ invoked[2] = <<1>>
    /\ cell[1] = fret[1] /\ cell[1] # 0
    /\ cell[2] = fret[2] /\ cell[2] # 0

\* C19: every closure handed to spawn_blocking is eventually run and its
\* JoinHandle eventually holds a result, whatever the state of the pool at
\* the call: whatever the number of workers launched, and also when workers
\* that ended on their idle timeout are still in the thread list.
C19_EventuallyRun == \A k \in Jobs : (k <= submitted) ~> (cell[k] # 0)

\* The same in a form a finite run refutes: a closure waits in the queue
\* only while some worker is alive to receive it.
C19_Served ==
    pool_queue # <<>> => \E w \in WorkerIds : workers[w].pc \notin {"unborn", "finished"}

\* C20: a waker of a parked task invoked on another thread writes the task
\* id to the wake pipe, and the wake is not lost. block_on never blocks in
\* react without the waiter of the wake pipe in place; the step that ends
\* the react empties the pipe and calls queue(id) for every id read, so
\* every parked task named in the pipe is on the run queue after it; and
\* a parked task whose id is in the pipe is eventually polled, unless
\* block_on returns first, in which case the wake is kept (the task is on
\* the run queue, or parked with its id still in the pipe). This holds
\* wherever the write falls relative to the poll of the JoinHandle.
C20_Armed == pc = "wait" => wake_waiter
C20_DrainStep ==
    ev'.op = "wake_pipe" =>
        /\ pc = "wait" /\ pc' = "tick"
        /\ pipe' = <<>>
        /\ \A id \in Range(pipe) :
               id \in tasks => id \in Range(runq') /\ id \notin tasks'
C20_Kept(t) ==
    pc = "returned" /\ (t \in Range(runq) \/ (t \in tasks /\ t \in Range(pipe)))
C20_Polled ==
    \A t \in 1..WakeTasks :
        (t \in Range(pipe) /\ t \in tasks) ~> ((pc = "poll" /\ task = t) \/ C20_Kept(t))
C20_CrossThreadWake == []C20_Armed /\ [][C20_DrainStep]_vars /\ C20_Polled

\* A task that was parked on the JoinHandle of a blocking closure is polled
\* again after the closure's completion went through the wake pipe (no task
\* has finished, so nothing was woken on the executor thread), and its poll
\* of the handle returns the closure's value.
C20_Witness ==
    /\ pc = "poll"
    /\ done = {}
    /\ enq[task] = 1
    /\ pops[task] = 1
    /\ ~wake_waiter
    /\ bstate[1] = "ran"
    /\ ev.op = "join" /\ ev.id = BHandle(1) /\ ev.v # 0

\* ------------------------------------------------ claims on the runtime
\* C21: Runtime::new fails with AlreadyExists when a runtime is already
\* bound to the current thread, and returns a Runtime otherwise.
C21_NewFails ==
    [][rt_ev'.op = "new"
        => (/\ upgrade(RUNTIME, rt_live) # 0 => rt_ev'.res = "AlreadyExists"
            /\ upgrade(RUNTIME, rt_live) = 0
                  => (rt_ev'.res = "Ok" /\ rt_ev'.rt \in rt_live'))]_vars

\* C22: while an EnterGuard is alive the thread stays bound to the guard's
\* runtime, for any nesting of enter and block_on on one runtime; entering
\* while a different live runtime is bound panics and leaves the binding.
C22_GuardBinds ==
    \A g \in GuardIds :
        guards[g] # NoGuard => upgrade(RUNTIME, rt_live) = guards[g].rt

C22_ForeignPanics ==
    [][rt_ev'.op = "enter"
        => (rt_ev'.res = "panic"
              <=> upgrade(RUNTIME, rt_live) \notin {0, rt_ev'.rt})
           /\ (rt_ev'.res = "panic" => UNCHANGED <<RUNTIME, guards>>)]_vars

\* ------------------------------------- claims on queue and the current id
\* The effect queue(id) would have in the present state.
QueueNow(id) == queue(runq, tasks, current_id, current_woken, id)

\* C23: queue(id) for an id that is already on the run queue, or that
\* belongs to no live task (never spawned, or completed and dropped), leaves
\* the run queue, the parked table, the current id and the re-notified flag
\* unchanged. Stated for every state in which code on the executor thread can
\* invoke a waker; queue never writes the current id.
C23_Discarded ==
    pc \in {"idle", "returned", "poll", "fds", "tick"}
        => \A id \in TaskIds :
               (InRunq(id) \/ ~Live(id))
                   => (/\ QueueNow(id).runq = runq
                       /\ QueueNow(id).tasks = tasks
                       /\ QueueNow(id).woken = current_woken)

\* C24: the current id is nonzero only while a task is being polled: during
\* react, during tick and after block_on has returned it is 0.
C24_CurrentZero ==
    pc \in {"react", "wait", "fds", "tick", "returned"} => current_id = 0

\* --------------------------------------------------- claims on the timer
\* A poll of a Sleep returns Ready when its entry is absent from the map and
\* Pending when it is present.
C25_PollStep ==
    ev'.op \in {"slept", "pending"}
        => (ev'.op = "slept" <=> ~HasKey(timers, slp[task]))

\* No entry of the map belongs to a Sleep that has resolved.
C25_Unresolved == \A e \in timers : e.id \notin Range(fired)

\* An entry leaves the map in a step of tick only.
C25_LeaveStep ==
    \A e \in timers : ~HasKey(timers', KeyOf(e)) => ev'.op = "tick"

\* C25: polling a Sleep returns Ready iff its (deadline, id) entry is absent
\* from the timer map and Pending otherwise; every entry in the map belongs
\* to a Sleep that has not resolved, and entries leave the map only through
\* tick.
C25_ReadyIffAbsent ==
    [][C25_PollStep /\ C25_LeaveStep]_vars /\ []C25_Unresolved

\* C25 witness: a Sleep has just resolved, its entry consumed by tick, while
\* the entry of another Sleep, polled and pending, is in the map.
C25_Witness ==
    /\ ev.op = "slept"
    /\ ev.old \in Range(fired)
    /\ \E e \in timers : e.waker # 0 /\ e.id \notin Range(fired)

\* A poll of a Sleep that returns Pending leaves the waker of that poll in
\* the entry.
C26_PollStep ==
    (ev'.op = "pending" /\ HasKey(timers, slp[task]))
        => Entry(slp[task], task) \in timers'

\* C26: when a pending Sleep is polled again before it fires with a waker
\* different from the stored one, the entry's waker is updated, so the waker
\* that tick invokes at expiry is the one of the most recent poll.
C26_WakerUpdated == [][C26_PollStep]_vars

\* The entries of map tm whose deadline is reached at instant t, and those
\* among them that hold a waker.
Expired(tm, t) == {e \in tm : e.deadline <= t}
ExpiredWakers(tm, t) == {e \in Expired(tm, t) : e.waker # 0}

\* The step of tick removes exactly the expired entries, leaves the others as
\* they are and invokes the waker of every removed entry that has one: the
\* task of such a waker, if parked, is on the run queue afterwards.
C27_TickStep ==
    ev'.op = "tick"
        => /\ timers' = timers \ Expired(timers, clock)
           /\ ev'.v = Cardinality(ExpiredWakers(timers, clock))
           /\ \A e \in ExpiredWakers(timers, clock) :
                  e.waker \in tasks => (e.waker \in Range(runq') /\ e.waker \notin tasks')

\* tick on the present map at the present instant: the wakers it invokes are
\* those of the expired entries, each once, in ascending (deadline, id) order.
C27_Order ==
    LET r == tick(timers, clock)
        W == ExpiredWakers(timers, clock)
    IN  /\ r.timers = timers \ Expired(timers, clock)
        /\ Len(r.wakes) = Cardinality(W)
        /\ \E f \in [1..Len(r.wakes) -> W] :
               /\ \A i, j \in 1..Len(r.wakes) :
                      i < j => KeyLess(KeyOf(f[i]), KeyOf(f[j]))
               /\ \A i \in 1..Len(r.wakes) : r.wakes[i] = f[i].waker

\* next_deadline is None (-1) iff the map is empty, and otherwise the least
\* deadline minus now, saturating at zero.
C27_NextDeadline ==
    /\ next_deadline(timers, clock) = 0 - 1 <=> timers = {}
    /\ \A e \in timers :
           (\A o \in timers : e.deadline <= o.deadline)
               => next_deadline(timers, clock)
                      = (IF e.deadline > clock THEN e.deadline - clock ELSE 0)

\* C27: tick removes exactly the entries whose deadline is <= now, in
\* ascending (deadline, id) order, invokes the waker of each removed entry
\* that has one and leaves every entry with deadline > now unchanged; after
\* tick next_deadline is None iff the map is empty and otherwise the first
\* remaining deadline minus now, saturating at zero.
C27_TickExact ==
    [][C27_TickStep]_vars /\ [](C27_Order /\ C27_NextDeadline)

\* C27 witness: one tick has removed two entries and queued their two tasks,
\* the earlier (deadline, id) first; the map is empty and next_deadline None.
C27_Witness ==
    /\ ev.op = "tick"
    /\ ev.v = 2
    /\ Len(runq) = 2
    /\ runq[1] # runq[2]
    /\ timers = {}
    /\ next_deadline(timers, clock) = 0 - 1

\* -------------------------------------------------- claims on the reactor
\* The fd slots: every slot but the reserved wake slot (index 1 here).
FdSlots == 2..Len(pollfds)
\* The Registrations alive for fd: those the program holds and, for the wake
\* pipe, the one in InnerExecutor.
Registrations(fd) == IF fd = PipeFd THEN 1 ELSE regs[fd]

\* C28: after any sequence of Registration creations and drops, wake_when
\* calls and react calls, the slot table holds at most one slot per file
\* descriptor, whether the fd's slot is active or idle (negated) when a
\* further Registration of the fd is created.
C28_OneSlotPerFd ==
    \A i, j \in FdSlots : Abs(pollfds[i].fd) = Abs(pollfds[j].fd) => i = j

\* Each fd slot counts the live Registrations of its fd, and no slot is
\* left without one.
C29_Counts ==
    \A i \in FdSlots :
        /\ fd_waiters[i].refcount = Registrations(Abs(pollfds[i].fd))
        /\ fd_waiters[i].refcount > 0

\* The drop of a Registration takes one from the refcount of the fd's slot,
\* and removes the slot exactly when it was the last Registration of the fd.
C29_DropStep ==
    \A fd \in Fds :
        regs'[fd] < regs[fd]
            => IF regs'[fd] = 0
               THEN SlotsAbs(pollfds', fd) = {}
               ELSE /\ SlotsAbs(pollfds', fd) = SlotsAbs(pollfds, fd)
                    /\ \A i \in SlotsAbs(pollfds, fd) :
                           fd_waiters'[i].refcount = fd_waiters[i].refcount - 1

\* C29: for every fd slot other than the reserved wake slot the refcount
\* equals the number of live Registrations of that fd; dropping a
\* Registration decrements it and the slot is removed exactly when the last
\* Registration of the fd is dropped, so every slot present has a nonzero
\* refcount and a live Registration.
C29_Refcount == []C29_Counts /\ [][C29_DropStep]_vars

\* The event bits of poll(2) a mask can carry.
EventBits == {1, 2, 4, 8, 16, 32}

\* C30: in every reachable reactor state each fd slot other than the
\* reserved wake slot satisfies: with an empty waiter list its pollfd fd
\* field is the negation of the fd and its event mask is 0; with waiters its
\* fd field is the positive fd and its event mask is the bitwise OR of its
\* waiters' interests.
C30_SlotShape ==
    \A i \in FdSlots :
        LET ws == fd_waiters[i].waiters
        IN  IF ws = <<>>
            THEN pollfds[i].fd < 0 /\ pollfds[i].events = 0
            ELSE /\ pollfds[i].fd > 0
                 /\ pollfds[i].events < 64
                 /\ \A b \in EventBits :
                        Bit(pollfds[i].events, b) = 1
                            <=> \E k \in 1..Len(ws) : Bit(ws[k].interest, b) = 1

\* C30 witness: react has woken the reader of a slot that held a reader and
\* a writer; the slot stays active with the mask of the writer left.
C30_Witness ==
    /\ rc_ev.op = "react"
    /\ rc_ev.n = 1
    /\ \E i \in FdSlots :
           /\ pollfds[i].fd \in Fds
           /\ pollfds[i].events = POLLOUT
           /\ Len(fd_waiters[i].waiters) = 1
           /\ fd_waiters[i].waiters[1].interest = POLLOUT

\* A slot holds a reader and a writer and has the mask of both.
C30_WitnessOr ==
    \E i \in FdSlots :
        /\ pollfds[i].fd \in Fds
        /\ pollfds[i].events = POLLIN + POLLOUT
        /\ Len(fd_waiters[i].waiters) = 2

\* Waiter x of a slot is due when poll(2) returned rv for the slot: its
\* interest bit is in rv, or rv holds ERR, HUP or NVAL.
Due(x, rv) ==
    \/ Bit(rv, x.interest) = 1
    \/ Bit(rv, POLLERR) = 1 \/ Bit(rv, POLLHUP) = 1 \/ Bit(rv, POLLNVAL) = 1

\* The wakers of the due waiters of the slots i.. in slot and list order.
RECURSIVE DueWakers(_, _)
DueWakers(rv, i) ==
    IF i > Len(fd_waiters) THEN <<>>
    ELSE LET ws == fd_waiters[i].waiters
             IsDue(x) == Due(x, rv[i])
             due == SelectSeq(ws, IsDue)
         IN  [k \in 1..Len(due) |-> due[k].waker] \o DueWakers(rv, i + 1)

\* Result r of react on the current table, poll(2) having returned rv:
\* each slot keeps, in order, the waiters that are not due, and the wakers
\* invoked are those of the due waiters.
C31_Exact(rv, r) ==
    /\ Len(r.fd_waiters) = Len(fd_waiters)
    /\ \A i \in 1..Len(fd_waiters) :
           LET ws == fd_waiters[i].waiters
               left == r.fd_waiters[i].waiters
               Stays(x) == ~Due(x, rv[i])
           IN  /\ left = SelectSeq(ws, Stays)
               /\ rv[i] = 0 => left = ws
               /\ r.fd_waiters[i].refcount = fd_waiters[i].refcount
    /\ r.wakes = DueWakers(rv, 1)

\* The waiters a table holds.
RECURSIVE TotalWaiters(_)
TotalWaiters(fw) ==
    IF fw = <<>> THEN 0
    ELSE Len(Last(fw).waiters) + TotalWaiters(Front(fw))

\* The react call of block_on: a waiter leaves the table exactly when its
\* waker is invoked, and no slot gains a waiter.
C31_ReactStep ==
    pc = "wait" /\ pc' = "tick"
        => /\ Len(fd_waiters') = Len(fd_waiters)
           /\ rc_ev'.op = "react"
           /\ rc_ev'.n + TotalWaiters(fd_waiters') = TotalWaiters(fd_waiters)
           /\ \A i \in 1..Len(fd_waiters) :
                  Len(fd_waiters'[i].waiters) <= Len(fd_waiters[i].waiters)

\* C31: for every slot with nonzero returned events, react removes and
\* wakes exactly the waiters whose interest bit is in the returned events,
\* or all waiters of the slot when the returned events contain ERR, HUP or
\* NVAL; every other waiter stays registered and is not woken, and waiters
\* of slots with no returned events are untouched.
C31_WakesExactly ==
    /\ [](pc = "wait"
             => \A rv \in PollResults(pollfds) :
                    \A r \in {react(pollfds, fd_waiters, rv, 1)} :
                        C31_Exact(rv, r))
    /\ [][C31_ReactStep]_vars

\* C31 witness: react returned having woken one waiter of an fd slot and
\* left another of the same slot registered, the wake pipe's waiter
\* untouched.
C31_Witness ==
    /\ pc = "tick"
    /\ rc_ev = RcEv("react", 0, 1)
    /\ PipeArmed(fd_waiters, pollfds)
    /\ \E i \in FdSlots :
           pollfds[i].fd \in Fds /\ Len(fd_waiters[i].waiters) = 1

\* ------------------------------------------------ claims on react's timeout
\* The whole milliseconds of d fit a c_int.
FitsCInt(d) ==
    \/ d.secs < INT_MAX \div 1000
    \/ d.secs = INT_MAX \div 1000 /\ d.nanos \div 1000000 <= INT_MAX % 1000

\* C32: react hands poll a timeout of -1 when given None and otherwise the
\* duration's whole milliseconds clamped to the range [0, INT_MAX]: a
\* duration of more than INT_MAX milliseconds yields INT_MAX, never a
\* negative or wrapped-around value.
C32_Clamped ==
    tmo.called
        => IF tmo.arg = None THEN tmo.handed = 0 - 1
           ELSE IF FitsCInt(tmo.arg)
                THEN tmo.handed = tmo.arg.secs * 1000 + tmo.arg.nanos \div 1000000
                ELSE tmo.handed = INT_MAX

\* syscall::poll by itself clamps an Option<Duration> as C32 says.
C32_PollClamps ==
    tmo.called
        => IF tmo.arg = None THEN tmo.clamped = 0 - 1
           ELSE IF FitsCInt(tmo.arg)
                THEN tmo.clamped = tmo.arg.secs * 1000 + tmo.arg.nanos \div 1000000
                ELSE tmo.clamped = INT_MAX

\* react has handed over a negative timeout other than the -1 of None.
C32_Negative == tmo.called /\ tmo.arg # None /\ tmo.handed < 0

\* ------------------------------------- claims on the sender waker list
\* No sender id has two entries in the sender waker list, the entries are
\* of live senders, and every live sender's id has been handed out.
C33_OneEntry ==
    kind = "unsync" /\ capacity # usize_MAX
        => /\ \A i, j \in 1..Len(tx_wakers) :
                  tx_wakers[i] = tx_wakers[j] => i = j
           /\ Range(tx_wakers) \subseteq senders
           /\ \A s \in senders : s <= last_id

\* A clone gets an id no sender has or had; a dropped sender leaves no
\* entry behind and the entries of the others stay as they were.
C33_Step ==
    kind = "unsync" /\ capacity # usize_MAX
        => /\ \A s \in senders' \ senders :
                  s = last_id' /\ s > last_id /\ tx_wakers' = tx_wakers
           /\ \A s \in senders \ senders' :
                  /\ s \notin Range(tx_wakers')
                  /\ tx_wakers' = retain(tx_wakers, s)
                  /\ Len(tx_wakers') >= Len(tx_wakers) - 1

\* C33: in the single-thread bounded channel, after any sequence of sender
\* clones, send polls, receives and sender drops, the sender waker list
\* holds at most one entry per sender id, distinct live senders have
\* distinct ids, and dropping a sender removes its entry.
C33_NoDuplicates == []C33_OneEntry /\ [][C33_Step]_vars

\* C33 witness: a sender was dropped after a receive while the other
\* sender, a clone, keeps its entry in the waker list.
C33_Witness ==
    /\ kind = "unsync" /\ capacity # usize_MAX
    /\ cev.op = "drop" /\ cev.id # 0
    /\ rcvd # <<>>
    /\ last_id >= 2
    /\ tx_wakers # <<>>

\* ------------------------------------------- claims on lost notifications
\* queue(id) was called since the start of the most recent poll of id:
\* while it was parked, or by the poll in progress.
Outstanding(id) ==
    \/ notes[id] >= 1
    \/ pc = "poll" /\ task = id /\ selfNotified

\* A live task with a notification outstanding is on the run queue or in
\* the hands of the driver, never in the parked table.
C34_NotParked ==
    \A id \in TaskIds :
        (Live(id) /\ Outstanding(id))
            => /\ id \notin tasks
               /\ InRunq(id) \/ (pc = "poll" /\ task = id)

\* A poll that was notified and returns Pending is followed at once by
\* another poll of the task; a task leaves the run queue only to be polled;
\* a task enters the parked table only from a poll nobody notified.
C34_Step ==
    /\ (pc = "poll" /\ ev'.op = "pending" /\ selfNotified)
           => (pc' = "poll" /\ task' = task /\ task \notin tasks')
    /\ \A id \in TaskIds :
           /\ (InRunq(id) /\ Count(runq', id) = 0)
                  => (pc = "pop" /\ pc' = "poll" /\ task' = id)
           /\ (id \notin tasks /\ id \in tasks')
                  => (pc = "poll" /\ task = id /\ ~selfNotified)

OnRunq(id) == InRunq(id) /\ pc \notin {"idle", "returned"}
\* The driver polls task id, or block_on has returned.
PolledOrReturned(id) == (pc = "poll" /\ task = id) \/ pc = "returned"

\* C35: every task placed on the run queue is eventually polled, provided
\* every poll terminates and no task wakes itself during its own poll; in
\* particular other tasks that keep waking one another cannot keep a queued
\* task waiting forever. (Stated up to the return of block_on.)
C35_EventuallyPolled ==
    [](~selfNotified)
        => \A id \in TaskIds : OnRunq(id) ~> PolledOrReturned(id)

\* ----------------------------- claims on the senders of the cross-thread channel
\* C36: in the cross-thread bounded channel with two or more cloned senders
\* used by different tasks, a sender parked on a full queue is always woken
\* after the receiver frees a slot: its stored waker is never overwritten
\* or cleared by another sender's send, so no sender stays parked forever
\* while the queue has room.
C36_WakerKept ==
    (kind = "sync" /\ capacity # usize_MAX /\ ~recv_gone)
        => \A s \in SyncParked : tx_waker = s

\* A sender is parked for good while the queue has room: its waker is in
\* no slot, the receiver is parked or idle with nothing to take, and no
\* other sender has a send in flight.
C36_Stranded ==
    /\ kind = "sync" /\ capacity # usize_MAX /\ ~recv_gone
    /\ \E s \in SyncParked :
           /\ tx_waker = 0
           /\ Len(ch_queue) < capacity
           /\ srx.pc = "idle"
           /\ \A o \in senders \ {s} : stx[o].pc = "idle" /\ sending[o] = 0

\* --------------------------------- claims on stale sender waker entries
\* C37: in the single-thread bounded channel, a sender has an entry in the
\* sender waker list only while one of its sends is pending: once its send
\* resolves (Ok or Err) no entry with its id remains, so a receive never
\* spends its single wake on a sender that is not waiting while another
\* sender stays parked with room in the queue.
C37_OnlyPending ==
    (kind = "unsync" /\ capacity # usize_MAX)
        => \A s \in Range(tx_wakers) : sending[s] # 0

\* A receive has spent its wake on a sender with no send in flight while
\* another sender is parked, its waker not invoked, and the queue has room.
C37_WastedWake ==
    /\ kind = "unsync" /\ capacity # usize_MAX /\ ~recv_gone
    /\ cev.op = "recv" /\ cev.res = "Some"
    /\ Len(ch_queue) < capacity
    /\ \E w \in woken : sending[w] = 0
    /\ \E s \in senders : sending[s] # 0 /\ s \notin woken

\* ------------------------------------------ claims on the waiters of a slot
\* The waiters of slot i that wait for interest b.
WaitersFor(i, b) ==
    {k \in 1..Len(fd_waiters[i].waiters) : fd_waiters[i].waiters[k].interest = b}

\* C38: for one Registration and one interest the reactor holds at most one
\* waiter entry: calling wake_when again, as a read or write that reports
\* would-block does on every poll, replaces the earlier entry instead of
\* adding one, so a slot's waiter list does not grow with repeated polls
\* and one event wakes the task once. (Stated for the fds with a single
\* Registration: their slot holds at most one reader and one writer.)
C38_OneWaiter ==
    \A i \in FdSlots :
        (Abs(pollfds[i].fd) \in Fds /\ regs[Abs(pollfds[i].fd)] <= 1)
            => \A b \in {POLLIN, POLLOUT} : Cardinality(WaitersFor(i, b)) <= 1

\* react has invoked the waker of the one task twice for one event: two
\* polls of a read that would block had registered two waiters.
C38_WokenTwice ==
    /\ pc = "tick"
    /\ rc_ev = RcEv("react", 0, 2)
    /\ PipeArmed(fd_waiters, pollfds)
    /\ LiveRegs(Fds) = 1
    /\ \A i \in FdSlots : pollfds[i].fd \in Fds => pollfds[i].events = 0

\* ------------------------------------- claims on dropped Registrations
\* via runs parallel to the waiter lists, and regs counts the objects.
C39_Ghost ==
    /\ Len(via) = Len(fd_waiters)
    /\ \A i \in 1..Len(via) : Len(via[i]) = Len(fd_waiters[i].waiters)
    /\ \A fd \in Fds : regs[fd] = Cardinality({g \in RegIds : reg_fd[g] = fd})

\* C39: after a Registration is dropped, no waiter that was registered
\* through it remains in the reactor and no later react invokes its waker,
\* also when other Registrations of the same fd are still alive.
C39_NoStaleWaiter ==
    \A i \in FdSlots :
        \A k \in 1..Len(via[i]) : via[i][k] = 0 \/ via[i][k] \in LiveRegIds

\* react has invoked the waker of a waiter whose Registration was dropped
\* before: the only Registration alive registered no waiter yet.
C39_StaleWake ==
    /\ pc = "tick"
    /\ rc_ev = RcEv("react", 0, 1)
    /\ PipeArmed(fd_waiters, pollfds)
    /\ Cardinality(LiveRegIds) = 1
    /\ TotalWaiters(fd_waiters) = 1
    /\ \E g \in RegIds : reg_fd[g] = 0 /\ g < MaxRegs

\* ------------------------------------------- claims on Sleep and its deadline
\* The time left until the deadline of entry e.
Remaining(e) == IF e.deadline > clock THEN e.deadline - clock ELSE 0

\* A poll of a Sleep returns Ready at or after its deadline, its entry gone.
C40_ReadyStep ==
    (pc = "poll" /\ task # 0 /\ slp[task] # NoSleep /\ ev'.op = "slept"
        /\ slp'[task] = NoSleep)
        => slp[task].deadline <= clock /\ ~HasKey(timers, slp[task])

\* An entry leaves the map in tick, at an instant not before its deadline.
C40_RemoveStep ==
    \A e \in timers :
        ~HasKey(timers', KeyOf(e)) => pc = "tick" /\ e.deadline <= clock

\* react returns no later than the timeout it was given, and that timeout is
\* at most the time left to any deadline of the map.
C40_ReactStep ==
    (pc = "react" /\ pc' = "tick")
        => /\ clock' >= clock
           /\ \A e \in timers : clock' - clock <= Remaining(e)

\* The deadline of a Sleep whose entry is gone has passed.
C40_GoneIsDue ==
    \A t \in DOMAIN slp :
        (slp[t] # NoSleep /\ ~HasKey(timers, slp[t])) => slp[t].deadline <= clock

\* C40: a Sleep never resolves before its deadline: a poll of a Sleep returns
\* Ready only after a tick executed at an instant now >= deadline has removed
\* its entry, and the timeout the driver passes to react never exceeds the
\* time remaining to the earliest pending deadline.
C40_NotBeforeDeadline ==
    [][C40_ReadyStep /\ C40_RemoveStep /\ C40_ReactStep]_vars /\ []C40_GoneIsDue

\* C40 witness: a Sleep with a deadline in the future when it was created
\* has resolved at the very instant of its deadline, react having waited for
\* it, while a later deadline is still pending.
C40_Witness ==
    /\ ev.op = "slept"
    /\ ev.v = clock
    /\ clock > 0
    /\ \E e \in timers : e.deadline > clock /\ e.waker # 0

====
